---- MODULE Spec2Model ----
(***************************************************************************)
(* State-machine model of the lecture collection pipeline of the UCAS SEP  *)
(* schedule exporter: the content script's collector (src/src/main.ts:     *)
(* handleCollectRequest, collectAllPages, fetchPageHtml) and the parser    *)
(* module's row parser and detail enricher (src/unnamed/part_001:          *)
(* parseLectureRows, enrichLectureDescriptions, applyLectureDetails).      *)
(* The same module's calendar exporter (generateIcsFile, lectureToEvent)   *)
(* and the popup that sends the request, shows the records and exports     *)
(* them (src/src/worker.ts: loadLectures, exportLectures, applyFilters,    *)
(* renderLectures, loadLectureDetails), with its filters and its selection *)
(* panel (matchesFilters, handleMultiSelectChange, selectAllLectures),     *)
(* and the scan of a detail page (extractLectureDetails).                  *)
(*                                                                         *)
(* JavaScript runs one continuation at a time: every action below is one   *)
(* such run, from the event that resumes it (a message, a settled fetch)   *)
(* to the next await or to the end of the handler.                         *)
(***************************************************************************)
EXTENDS Integers, Sequences, FiniteSets, TLC

(***************************************************************************)
(* Bounds of the model.                                                    *)
(***************************************************************************)
MaxPages == 2          \* largest number the pagination text may carry
MaxLectures == 3       \* longest record list of a direct enricher call
MaxConcurrency == 2    \* largest cap of a direct enricher call
MaxExportRows == 2     \* longest record list of a direct exporter call
MaxLoads == 2          \* loads the popup starts in one lifetime
MaxDownloads == 1      \* files the popup downloads in one lifetime
MaxDetailRows == 3     \* most table rows of a detail page

(***************************************************************************)
(* Program constants.                                                      *)
(***************************************************************************)
DefaultConcurrency == 5    \* enrichLectureDescriptions(lectures, concurrency = 5)
MinCells == 8              \* parseLectureRow: if (cells.length < 8) return undefined

\* JavaScript's undefined, for the optional string fields of a record.
Undefined == "undefined"

Falsy(s) == s = Undefined \/ s = ""

Min(a, b) == IF a <= b THEN a ELSE b

(***************************************************************************)
(* Number.prototype.toString / template-literal formatting of a            *)
(* non-negative integer: its decimal digits.                               *)
(***************************************************************************)
Digits == <<"0", "1", "2", "3", "4", "5", "6", "7", "8", "9">>

RECURSIVE ToStr(_)
ToStr(n) ==
    IF n < 10 THEN Digits[n + 1]
    ELSE ToStr(n \div 10) \o Digits[(n % 10) + 1]

(***************************************************************************)
(* The source the pass reads: table documents and detail pages.            *)
(* A table row is reduced to what parseLectureRow reads from it: the       *)
(* number of td cells, whether the time cell matches the strict pattern,   *)
(* the title text and the href of the action cell's anchor.                *)
(***************************************************************************)
Links == {"u1", "u2"}

Row(title, href) == [cells |-> 8, timeOk |-> TRUE, title |-> title, href |-> href]
HeaderRow == [cells |-> 3, timeOk |-> FALSE, title |-> "head", href |-> Undefined]
BadTimeRow == [cells |-> 9, timeOk |-> FALSE, title |-> "tbd", href |-> "u2"]

Docs ==
    { <<>>,
      <<HeaderRow, Row("A", "u1")>>,
      <<Row("B", "u1"), BadTimeRow, Row("C", Undefined)>>,
      <<Row("D", "u2")>> }

\* What extractLectureDetails can return: each field is absent or a
\* non-empty text (it assigns a field only when the value is truthy).
Details(d, m, b) == [def |-> TRUE, description |-> d, mainVenue |-> m, branchVenue |-> b]

\* The `undefined` that the enricher caches for a failed fetch.
NoDetails == [def |-> FALSE, description |-> Undefined, mainVenue |-> Undefined,
              branchVenue |-> Undefined]

DetailChoices ==
    { Details("intro", "Room A", "Room B"),
      Details(Undefined, "Room A", Undefined),
      Details(Undefined, Undefined, Undefined) }

\* The detail pages of a collection pass: link -> parsed page.
DetailSources ==
    { [l \in Links |-> IF l = "u1" THEN Details("intro", "Room A", "Room B")
                       ELSE Details(Undefined, "Room A", Undefined)],
      [l \in Links |-> IF l = "u1" THEN Details(Undefined, Undefined, Undefined)
                       ELSE Details("intro", "Room A", "Room B")],
      [l \in Links |-> IF l = "u1" THEN Details(Undefined, "Room A", Undefined)
                       ELSE Details(Undefined, Undefined, Undefined)] }

\* What a fetch can settle to: a response with a status, or a rejection
\* (network error).  response.ok is true for the statuses 200..299.
Settled(status) == [kind |-> "response", status |-> status]
Rejected == [kind |-> "reject", status |-> 0]

Outcomes == { Settled(200), Settled(404), Settled(500), Rejected }

\* Variant: the status of the response is not looked at.
ResponseOkAlways(status) == TRUE

ResponseOk(status) == status >= 200 /\ status <= 299

(***************************************************************************)
(* Row Parser.                                                             *)
(***************************************************************************)
LectureRow(id, title, url) ==
    [id |-> id, title |-> title, detailUrl |-> url,
     detailDescription |-> Undefined, mainVenue |-> Undefined,
     branchVenue |-> Undefined]

\* Date arrays [year, month, day, hour, minute] of two lectures, and the end
\* of a lecture that starts at `start`.
StartA == <<2026, 3, 5, 14, 0>>
StartB == <<2026, 3, 6, 9, 30>>
EndOf(start) == <<start[1], start[2], start[3], start[4] + 2, start[5]>>

\* new Date(year, month - 1, day, hour, minute).getTime(), counted in
\* minutes of a calendar of 31-day months: a number that grows with the
\* date and the time of day.
TimeOf(array) ==
    LET hour == IF Len(array) >= 4 THEN array[4] ELSE 0
        minute == IF Len(array) >= 5 THEN array[5] ELSE 0
    IN (((array[1] * 12 + (array[2] - 1)) * 31 + array[3]) * 24 + hour) * 60 + minute

\* parseTimeCell: no timing for a time cell that does not match the strict
\* pattern; the time cells of the model's rows that match all read StartA
\* to two hours later.
NoTiming == [matched |-> FALSE, start |-> <<>>, end |-> <<>>,
             startTimestamp |-> 0, endTimestamp |-> 0]

parseTimeCell(row) ==
    IF ~row.timeOk THEN NoTiming
    ELSE [matched |-> TRUE, start |-> StartA, end |-> EndOf(StartA),
          startTimestamp |-> TimeOf(StartA), endTimestamp |-> TimeOf(EndOf(StartA))]

\* The other cells of the model's rows: topic, speaker, department,
\* audience and credits go with the title.
CellsOf(title) ==
    [topic |-> IF title \in {"A", "B"} THEN "science" ELSE "art",
     speaker |-> IF title = "B" THEN "Dr. Wu" ELSE "Prof. Li",
     department |-> IF title = "C" THEN "Math" ELSE "Physics",
     audience |-> IF title \in {"A", "C"} THEN "graduate" ELSE "",
     credits |-> IF title = "A" THEN 2 ELSE 1]

\* The row test without the time-cell test.
RowAcceptedAnyTime(row) == row.cells >= MinCells

\* parseLectureRow returns undefined for a rejected row.
RowAccepted(row) == row.cells >= MinCells /\ parseTimeCell(row).matched

\* The record of an accepted row.
parseLectureRow(row, id) ==
    LET timing == parseTimeCell(row) IN
    LectureRow(id, row.title, row.href)
    @@ CellsOf(row.title)
    @@ [start |-> timing.start, end |-> timing.end,
        startTimestamp |-> timing.startTimestamp,
        endTimestamp |-> timing.endTimestamp]

RECURSIVE ParseFrom(_, _)
ParseFrom(doc, i) ==
    IF i > Len(doc) THEN <<>>
    ELSE IF RowAccepted(doc[i])
         THEN <<parseLectureRow(doc[i], i - 1)>> \o ParseFrom(doc, i + 1)
         ELSE ParseFrom(doc, i + 1)

parseLectureRows(doc) == ParseFrom(doc, 1)

collectLectures(doc) == parseLectureRows(doc)

(***************************************************************************)
(* Pagination metadata (collectMetadata).                                  *)
(* The pagination status text is reduced to the outcome of pageMatch: no   *)
(* match, or the two numbers captured by \d+ (any non-negative integers).  *)
(***************************************************************************)
PageMatches ==
    { [matched |-> FALSE, cur |-> 0, tot |-> 0] } \cup
    { [matched |-> TRUE, cur |-> c, tot |-> t] : c \in 0..MaxPages, t \in 0..MaxPages }

\* parseInt(pageMatch[1], 10), and parseInt(pageMatch[2], 10) || 1.
extractPaginationInfo(m) ==
    [currentPage |-> IF m.matched THEN m.cur ELSE 1,
     totalPages  |-> IF m.matched THEN (IF m.tot = 0 THEN 1 ELSE m.tot) ELSE 1]

\* A field map is a JavaScript object: name/value pairs in insertion order,
\* names unique.
Field(k, v) == [k |-> k, v |-> v]

Keys(fields) == { fields[i].k : i \in 1..Len(fields) }

\* /^page(no|num)$/i and /page/i (key.toLowerCase().includes("page")) over the
\* field names of the model.
ExactPageNames == {"pageNum", "pageNo"}
PageNames == {"pageNum", "pageNo", "curPage"}

\* Object.keys(fields).find(key => ...): the first key among names, if any.
FirstKey(fields, names) ==
    IF \E i \in 1..Len(fields) : fields[i].k \in names
    THEN fields[CHOOSE i \in 1..Len(fields) :
                    /\ fields[i].k \in names
                    /\ \A j \in 1..(i - 1) : fields[j].k \notin names].k
    ELSE Undefined

determinePageField(fields) ==
    IF FirstKey(fields, ExactPageNames) # Undefined
    THEN FirstKey(fields, ExactPageNames)
    ELSE FirstKey(fields, PageNames)

guessPageFieldName(fields) ==
    IF FirstKey(fields, ExactPageNames) # Undefined
    THEN FirstKey(fields, ExactPageNames)
    ELSE FirstKey(fields, PageNames)

\* What extractFormState reads from the live page: the merged serialized
\* fields of the two forms, the form method, and the field name
\* detectPageFieldName finds in the page's gotoPage script (if any).
FormInputs ==
    { [fields |-> <<Field("q", "ai"), Field("pageNum", "1")>>, method |-> "POST",
       detected |-> Undefined],
      [fields |-> <<Field("curPage", "1"), Field("q", "ai")>>, method |-> "GET",
       detected |-> "pn"],
      [fields |-> <<Field("q", "ai")>>, method |-> "POST", detected |-> Undefined] }

extractFormState(in) ==
    LET pageField == IF ~Falsy(in.detected) THEN in.detected
                     ELSE determinePageField(in.fields)
        fields == IF ~Falsy(pageField) /\ pageField \notin Keys(in.fields)
                  THEN Append(in.fields, Field(pageField, ""))
                  ELSE in.fields
    IN [method |-> in.method, fields |-> fields, pageField |-> pageField]

collectMetadata(m, in) ==
    [totalPages  |-> extractPaginationInfo(m).totalPages,
     currentPage |-> extractPaginationInfo(m).currentPage,
     form        |-> extractFormState(in)]

(***************************************************************************)
(* Page replay request (fetchPageHtml).                                    *)
(***************************************************************************)
\* The subsequence of s at the indices in keep.
RECURSIVE Pick(_, _, _)
Pick(s, keep, i) ==
    IF i > Len(s) THEN <<>>
    ELSE IF i \in keep THEN <<s[i]>> \o Pick(s, keep, i + 1)
         ELSE Pick(s, keep, i + 1)

\* URLSearchParams.set: the first pair named k takes the value and the other
\* pairs named k are removed; without such a pair, one is appended.
ParamsSet(params, k, v) ==
    LET at == { i \in 1..Len(params) : params[i].k = k } IN
    IF at = {} THEN Append(params, Field(k, v))
    ELSE LET first == CHOOSE i \in at : \A j \in at : i <= j
             set == [params EXCEPT ![first] = Field(k, v)]
         IN Pick(set, (1..Len(params)) \ (at \ {first}), 1)

\* form.pageField || guessPageFieldName(form.fields) || "pageNo"
PageFieldOf(form) ==
    IF ~Falsy(form.pageField) THEN form.pageField
    ELSE IF ~Falsy(guessPageFieldName(form.fields)) THEN guessPageFieldName(form.fields)
    ELSE "pageNo"

\* The request fetchPageHtml issues for a page: the captured fields appended
\* to fresh parameters, the page field overwritten with page.toString().
PageParams(metadata, page) ==
    ParamsSet(metadata.form.fields, PageFieldOf(metadata.form), ToStr(page))

PageRequest(metadata, page) ==
    [page |-> page, method |-> metadata.form.method, params |-> PageParams(metadata, page)]

\* `Error("... ${page} ... (${response.status})")` of fetchPageHtml; the
\* message's Chinese words are written in ASCII.
PageErrorText(page, status) ==
    "load page " \o ToStr(page) \o " failed (" \o ToStr(status) \o ")"

NoTableText == "no lecture table found on this page"
NetworkErrorText == "Failed to fetch"

\* Variant: the loop without its `continue` for the loaded page.
NextPageNoSkip(metadata, from) ==
    IF from <= metadata.totalPages THEN from ELSE 0

\* The loop `for (page = from; page <= totalPages; page++) if (page ===
\* currentPage) continue`: the next page it requests, 0 when it ends.
NextPage(metadata, from) ==
    LET rest == { p \in from..metadata.totalPages : p # metadata.currentPage } IN
    IF rest = {} THEN 0 ELSE CHOOSE p \in rest : \A q \in rest : p <= q

\* The first page the walk requests: none unless `totalPages > 1`.
FirstPage(metadata) ==
    IF metadata.totalPages > 1 THEN NextPage(metadata, 1) ELSE 0

\* Variant: the rows of a page are put in front of the accumulator (unshift).
pushAllFront(combined, rows) == rows \o combined

\* combined.push(...rows)
pushAll(combined, rows) == combined \o rows

\* Variant: the parameters are the captured field map itself (an alias, not
\* a fresh URLSearchParams), so setting the page field writes into it.
FieldsAliased(metadata, page) == PageParams(metadata, page)

\* The field map of the metadata object after fetchPageHtml(metadata, page)
\* built its request: the function only reads it.
FieldsAfterRequest(metadata, page) == metadata.form.fields

(***************************************************************************)
(* Detail Enricher (enrichLectureDescriptions).                            *)
(* An enricher state es holds the closure's variables: the record array,   *)
(* the cache Map (its key set and its values), the shared index cursor,    *)
(* each worker's position, and the log of the detail fetches issued.       *)
(***************************************************************************)
applyLectureDetails(target, details) ==
    IF ~details.def THEN target
    ELSE [target EXCEPT
            !.detailDescription =
                IF details.description # Undefined THEN details.description ELSE @,
            !.mainVenue = IF ~Falsy(details.mainVenue) THEN details.mainVenue ELSE @,
            !.branchVenue = IF ~Falsy(details.branchVenue) THEN details.branchVenue ELSE @]

NewWorker == [st |-> "new", current |-> 0, url |-> Undefined]
DoneWorker == [st |-> "done", current |-> 0, url |-> Undefined]

\* Variant: one worker per record, whatever the cap.
WorkerCountAll(cap, n) == n

\* Math.min(concurrency, lectures.length) workers are created.
WorkerCount(cap, n) == Min(cap, n)

\* cache.has(url)
CacheHas(es, url) == url \in es.cacheKeys

\* cache.set(url, details)
CacheSet(es, url, details) ==
    [es EXCEPT !.cacheKeys = @ \cup {url}, !.cacheVal[url] = details]

\* One run of worker w's loop from its head: it takes records off the
\* shared cursor until it has to fetch one (and suspends in the await) or
\* the cursor reaches the end of the array.
RECURSIVE RunWorker(_, _)
RunWorker(es, w) ==
    IF es.index >= Len(es.lectures)
    THEN [es EXCEPT !.wk[w] = DoneWorker]
    ELSE LET current == es.index
             lecture == es.lectures[current + 1]
             next == [es EXCEPT !.index = @ + 1]
         IN IF Falsy(lecture.detailUrl) THEN RunWorker(next, w)
            ELSE IF CacheHas(next, lecture.detailUrl)
            THEN RunWorker(
                    [next EXCEPT !.lectures[current + 1] =
                        applyLectureDetails(lecture, next.cacheVal[lecture.detailUrl])],
                    w)
            ELSE [next EXCEPT
                    !.wk[w] = [st |-> "fetch", current |-> current,
                               url |-> lecture.detailUrl],
                    !.log = Append(@, lecture.detailUrl)]

\* Array.from({length}, () => worker()): the workers start one after the
\* other, each running to its first await before the next one starts.
RECURSIVE StartWorkers(_, _)
StartWorkers(es, w) ==
    IF w > Len(es.wk) THEN es ELSE StartWorkers(RunWorker(es, w), w + 1)

enrichStart(ls, cap) ==
    StartWorkers(
        [lectures |-> ls, cacheKeys |-> {}, cacheVal |-> [l \in Links |-> NoDetails],
         index |-> 0, wk |-> [w \in 1..WorkerCount(cap, Len(ls)) |-> NewWorker],
         log |-> <<>>],
        1)

\* Variant: the details go to the record under the shared cursor, not to the
\* record the worker took before its await.
OnDetailsAtCursor(es, w, details) ==
    LET cur == es.index - 1
        applied == [es EXCEPT !.lectures[cur + 1] = applyLectureDetails(@, details)]
    IN RunWorker(CacheSet(applied, es.wk[w].url, details), w)

\* The worker's continuation after `await fetchLectureDetails(url)` returned
\* details: apply them to the record it holds, cache them, loop on.
OnDetails(es, w, details) ==
    LET cur == es.wk[w].current
        applied == [es EXCEPT !.lectures[cur + 1] = applyLectureDetails(@, details)]
    IN RunWorker(CacheSet(applied, es.wk[w].url, details), w)

\* Variant: the catch block only logs, nothing is cached.
OnFetchErrorNoCache(es, w) == RunWorker(es, w)

\* Variant: no catch block, the worker's promise rejects.
OnFetchErrorRethrow(es, w) ==
    [es EXCEPT !.wk[w] = [st |-> "threw", current |-> 0, url |-> Undefined]]

\* The worker's catch block: cache undefined for the link, loop on.
OnFetchError(es, w) == RunWorker(CacheSet(es, es.wk[w].url, NoDetails), w)

\* Variant: Promise.race in place of Promise.all.
AnyDone(es) == \E w \in 1..Len(es.wk) : es.wk[w].st = "done"

\* Promise.all(workers) resolves once every worker has returned, and rejects
\* as soon as one worker has thrown.
AllDone(es) == \A w \in 1..Len(es.wk) : es.wk[w].st = "done"

AnyThrew(es) == \E w \in 1..Len(es.wk) : es.wk[w].st = "threw"

(***************************************************************************)
(* Calendar Exporter (generateIcsFile, lectureToEvent).                    *)
(* A record of the collector's model carries only the cells the collector  *)
(* reads; a cell it does not carry reads as the text of an empty cell.     *)
(***************************************************************************)
Attr(row, name, default) == IF name \in DOMAIN row THEN row[name] ELSE default

EmptyInputText == "no lecture rows to export"
UnparsableText == "lecture data cannot be parsed"
SerializeErrorText == "Failed to generate ICS output."
GenericTitle == "lecture"

\* String.prototype.trim on the texts of the model: the only text with
\* surrounding white space is the blank one.
Trim(s) == IF s = " " THEN "" ELSE s

\* Array.prototype.join over the parts that are truthy.
RECURSIVE JoinParts(_, _)
JoinParts(parts, sep) ==
    IF parts = <<>> THEN ""
    ELSE IF Len(parts) = 1 THEN parts[1]
    ELSE parts[1] \o sep \o JoinParts(Tail(parts), sep)

Truthy(s) == ~Falsy(s)

\* flattenDescription: the texts of the model hold no line break and no run
\* of white space, so what is left of it is the trim.
flattenDescription(value) == IF Falsy(value) THEN "" ELSE Trim(value)

\* Variant: the topic is not a fallback for the title.
EventTitleNoTopic(row) == IF Truthy(row.title) THEN row.title ELSE GenericTitle

\* row.title || row.topic || generic label
EventTitle(row) ==
    IF Truthy(row.title) THEN row.title
    ELSE IF Truthy(Attr(row, "topic", "")) THEN row.topic
    ELSE GenericTitle

EventDescription(row) ==
    LET detail == IF row.detailDescription = Undefined THEN Undefined
                  ELSE Trim(row.detailDescription)
        parts == <<Attr(row, "topic", ""), Attr(row, "department", ""),
                   IF Truthy(Attr(row, "speaker", "")) THEN "speaker: " \o row.speaker ELSE "",
                   IF Truthy(Attr(row, "audience", "")) THEN "for: " \o row.audience ELSE "",
                   detail>>
    IN flattenDescription(JoinParts(SelectSeq(parts, Truthy), " / "))

EventLocation(row) ==
    LET locationParts ==
            SelectSeq(<<IF Truthy(row.mainVenue) THEN "main: " \o row.mainVenue ELSE "",
                        IF Truthy(row.branchVenue) THEN "branch: " \o row.branchVenue ELSE "">>,
                      Truthy)
    IN IF Len(locationParts) > 0 THEN JoinParts(locationParts, ", ")
       ELSE IF Truthy(Attr(row, "department", "")) THEN row.department
       ELSE Undefined

\* An optional attribute that is not set is Undefined.
lectureToEvent(row) ==
    [title |-> EventTitle(row),
     start |-> Attr(row, "start", <<>>),
     end |-> Attr(row, "end", <<>>),
     description |-> IF EventDescription(row) # "" THEN EventDescription(row) ELSE Undefined,
     location |-> EventLocation(row),
     url |-> IF Truthy(row.detailUrl) THEN row.detailUrl ELSE Undefined,
     categories |-> IF Truthy(Attr(row, "topic", "")) THEN <<row.topic>> ELSE Undefined]

\* lectureRows.map(lectureToEvent).filter(event => !!event): an event object
\* is always truthy.
EventsOf(rows) == [i \in 1..Len(rows) |-> lectureToEvent(rows[i])]

\* What a call of generateIcsFile comes to: it throws, or its promise
\* rejects, or a file is downloaded and the promise resolves with a count.
IcsThrew(reason) ==
    [kind |-> "throw", reason |-> reason, events |-> <<>>, downloads |-> 0, count |-> 0]

IcsRejected(events) ==
    [kind |-> "reject", reason |-> SerializeErrorText, events |-> events,
     downloads |-> 0, count |-> 0]

\* Variant: the promise resolves with the index of the last event.
ResolvedCountLastIndex(events) == Len(events) - 1

\* resolve(events.length)
ResolvedCount(events) == Len(events)

IcsResolved(events) ==
    [kind |-> "resolve", reason |-> "", events |-> events, downloads |-> 1,
     count |-> ResolvedCount(events)]

NoIcsResult == [kind |-> "none", reason |-> "", events |-> <<>>, downloads |-> 0, count |-> 0]

\* Variant: no check of the input's length.
generateIcsFileUnchecked(lectureRows, serialOk) ==
    LET events == EventsOf(lectureRows) IN
    IF Len(events) = 0 THEN IcsThrew(UnparsableText)
    ELSE IF ~serialOk THEN IcsRejected(events)
    ELSE IcsResolved(events)

\* serialOk: createEvents hands its callback a value and no error.
generateIcsFile(lectureRows, serialOk) ==
    IF Len(lectureRows) = 0 THEN IcsThrew(EmptyInputText)
    ELSE LET events == EventsOf(lectureRows) IN
         IF Len(events) = 0 THEN IcsThrew(UnparsableText)
         ELSE IF ~serialOk THEN IcsRejected(events)
         ELSE IcsResolved(events)

(***************************************************************************)
(* Responses of handleCollectRequest.                                      *)
(***************************************************************************)
NoMetadata == [totalPages |-> 0, currentPage |-> 0,
               form |-> [method |-> "", fields |-> <<>>, pageField |-> Undefined]]

NoResponse == [type |-> "none", reason |-> "", lectures |-> <<>>, metadata |-> NoMetadata]

ErrorResponse(reason) ==
    [type |-> "error", reason |-> reason, lectures |-> <<>>, metadata |-> NoMetadata]

LecturesResponse(ls, md) ==
    [type |-> "lectures", reason |-> "", lectures |-> ls, metadata |-> md]

\* Variant: the tail of the try block returns the records without testing
\* their number.
handleResultAny(ls, md) == LecturesResponse(ls, md)

\* The tail of handleCollectRequest's try block.
handleResult(ls, md) ==
    IF Len(ls) = 0 THEN ErrorResponse(NoTableText) ELSE LecturesResponse(ls, md)

(***************************************************************************)
(* State.                                                                  *)
(***************************************************************************)
VARIABLES
    caller,         \* "collector": a collectLectures message; "direct": a call
                    \* of the exported enrichLectureDescriptions
    liveDoc,        \* the table of the currently loaded page
    serverPages,    \* page index -> the table the server returns for it
    detailPage,     \* detail link -> what its page parses to
    infoMatch,      \* outcome of matching the pagination status text
    formInput,      \* the forms of the live page
    pc,             \* "idle", "page" (awaiting fetch), "pageText" (awaiting
                    \* response.text()), "enrich" (awaiting workers), "done"
    metadata,       \* initialMetadata of collectAllPages
    page,           \* loop variable of the pagination walk
    requests,       \* page requests issued so far, in order
    pagesInFlight,  \* pages requested whose body has not been read yet
    pagesParsed,    \* pages whose response has been parsed, in order
    pageStatus,     \* response.status of the last page response (0: none)
    concurrency,    \* the cap passed to enrichLectureDescriptions
    lectures,       \* combined / lectures: the one record array of the pass
    cacheKeys,      \* keys of the enricher's cache Map
    cacheVal,       \* values of the enricher's cache Map
    index,          \* the shared cursor
    wk,             \* worker -> position
    detailFetches,  \* detail links fetched so far, one entry per fetch
    failedLinks,    \* links for which a fetch has failed
    resolved,       \* enrichLectureDescriptions' promise has resolved
    response,       \* what handleCollectRequest answered
    popPc,          \* the popup: "off", "ready", "loading" (awaiting
                    \* requestLectures), "exporting" (awaiting generateIcsFile)
    sent,           \* the collectLectures message of the load in progress:
                    \* "none", "lost" (no tab, or sending threw), "delivered"
    buttonsDisabled,    \* the disabled flag of the action buttons
    status,         \* the status line: message and kind
    allLectures,    \* the popup's record set
    filteredLectures,   \* the filtered set, as the ids of its records in order
    selectedLectureIds, \* the selection
    filters,        \* the accepted set of each multi-value filter
    lectureDetailsCache,    \* link -> state of the cached promise
    thens,          \* callbacks waiting on a cached promise
    popupFetches,   \* detail links the popup fetched, one entry per fetch
    loads,          \* number of loads started
    icsInput,       \* the rows of the last call of generateIcsFile
    icsResult,      \* what that call came to
    downloads,      \* number of files downloaded
    urlOutcome,     \* the response of each URL, when the source is unchanged
    firstRun,       \* the records of the first of two passes
    runs,           \* number of passes started again
    detailRows,     \* the table rows of the detail page extractLectureDetails reads
    detailsSoFar,   \* the details it has gathered so far
    rowIndex        \* the index i of its loop over the rows

inputs == <<caller, liveDoc, serverPages, detailPage, infoMatch, formInput, concurrency>>
walk == <<metadata, page, requests, pagesInFlight, pagesParsed>>
enricher == <<lectures, cacheKeys, cacheVal, index, wk, detailFetches>>
popup == <<popPc, sent, buttonsDisabled, status, allLectures, filteredLectures,
           selectedLectureIds, filters, lectureDetailsCache, thens, popupFetches, loads>>
exporter == <<icsInput, icsResult, downloads>>
rerun == <<urlOutcome, firstRun, runs>>
extractor == <<detailRows, detailsSoFar, rowIndex>>
outside == <<popup, exporter, rerun, extractor>>
collector == <<pc, walk, pageStatus, enricher, failedLinks, resolved, response>>
vars == <<inputs, collector, outside>>

\* The positions of the handlers: every step in which a continuation of the
\* content script or of the popup runs changes one of them.
control == <<pc, popPc, wk>>

\* The enricher's variables as one enricher state, and back.
En ==
    [lectures |-> lectures, cacheKeys |-> cacheKeys, cacheVal |-> cacheVal,
     index |-> index, wk |-> wk, log |-> detailFetches]

SetEn(es) ==
    /\ lectures' = es.lectures
    /\ cacheKeys' = es.cacheKeys
    /\ cacheVal' = es.cacheVal
    /\ index' = es.index
    /\ wk' = es.wk
    /\ detailFetches' = es.log

\* Workers whose detail fetch is in flight (issued, not yet settled).
InFlight == { w \in 1..Len(wk) : wk[w].st \in {"fetch", "text"} }

(***************************************************************************)
(* Initial states.                                                         *)
(***************************************************************************)
\* The popup before its document is loaded.
NoStatus == [message |-> "", kind |-> "none"]
NoFilters ==
    [topic |-> {}, title |-> {}, speaker |-> {}, department |-> {}, audience |-> {},
     credits |-> {}, venueCampus |-> {}]

InitPopupOff ==
    /\ popPc = "off"
    /\ sent = "none"
    /\ buttonsDisabled = FALSE
    /\ status = NoStatus
    /\ allLectures = <<>>
    /\ filteredLectures = <<>>
    /\ selectedLectureIds = {}
    /\ filters = NoFilters
    /\ lectureDetailsCache = [l \in Links |-> "absent"]
    /\ thens = {}
    /\ popupFetches = <<>>
    /\ loads = 0

InitExporterOff ==
    /\ icsInput = <<>>
    /\ icsResult = NoIcsResult
    /\ downloads = 0

InitRerunOff ==
    /\ urlOutcome = <<>>
    /\ firstRun = <<>>
    /\ runs = 0

\* extractLectureDetails has not been called.
NoDetailsYet == [description |-> Undefined, mainVenue |-> Undefined, branchVenue |-> Undefined]

InitExtractorOff ==
    /\ detailRows = <<>>
    /\ detailsSoFar = NoDetailsYet
    /\ rowIndex = 0

InitCommon ==
    /\ InitPopupOff
    /\ InitExporterOff
    /\ InitRerunOff
    /\ pc = "idle"
    /\ metadata = NoMetadata
    /\ page = 0
    /\ requests = <<>>
    /\ pagesInFlight = {}
    /\ pagesParsed = <<>>
    /\ pageStatus = 0
    /\ cacheKeys = {}
    /\ cacheVal = [l \in Links |-> NoDetails]
    /\ index = 0
    /\ wk = <<>>
    /\ detailFetches = <<>>
    /\ failedLinks = {}
    /\ resolved = FALSE
    /\ response = NoResponse

\* A lecture page is open and the popup is about to send collectLectures.
Init ==
    /\ caller = "collector"
    /\ liveDoc \in Docs
    /\ serverPages \in [1..MaxPages -> Docs]
    /\ detailPage \in DetailSources
    /\ infoMatch \in PageMatches
    /\ formInput \in FormInputs
    /\ concurrency = DefaultConcurrency
    /\ lectures = <<>>
    /\ InitCommon
    /\ InitExtractorOff

\* Record lists of a direct call: parsed records, none enriched yet.
UrlChoices == Links \cup {Undefined}

RecordLists ==
    UNION { { [i \in 1..n |-> LectureRow(i - 1, "T", urls[i])] : urls \in [1..n -> UrlChoices] }
            : n \in 0..MaxLectures }

\* enrichLectureDescriptions is about to be called with a record list and
\* a positive cap.
InitEnrich ==
    /\ caller = "direct"
    /\ liveDoc = <<>>
    /\ serverPages = [p \in 1..MaxPages |-> <<>>]
    /\ detailPage \in [Links -> DetailChoices]
    /\ infoMatch = [matched |-> FALSE, cur |-> 0, tot |-> 0]
    /\ formInput = [fields |-> <<>>, method |-> "POST", detected |-> Undefined]
    /\ concurrency \in 1..MaxConcurrency
    /\ lectures \in RecordLists
    /\ InitCommon
    /\ InitExtractorOff

(***************************************************************************)
(* Actions.                                                                *)
(***************************************************************************)
\* The continuation that ran the enricher up to state es either leaves
\* workers suspended, or (all returned) resolves the enricher's promise and
\* with it collectAllPages and handleCollectRequest.
Resume(es, md) ==
    /\ SetEn(es)
    /\ IF AnyThrew(es)
       THEN /\ pc' = "done"
            /\ response' = IF caller # "direct" THEN ErrorResponse(NetworkErrorText)
                           ELSE response
            /\ UNCHANGED resolved
       ELSE IF AllDone(es)
       THEN /\ resolved' = TRUE
            /\ pc' = "done"
            /\ response' = IF caller # "direct" THEN handleResult(es.lectures, md)
                           ELSE response
       ELSE /\ pc' = "enrich"
            /\ UNCHANGED <<resolved, response>>

\* Variant: the requests of all remaining pages are dispatched at once
\* (Promise.all over the pages).
RECURSIVE PagesFrom(_, _)
PagesFrom(md, p) ==
    IF p > md.totalPages THEN <<>>
    ELSE IF p = md.currentPage THEN PagesFrom(md, p + 1)
    ELSE <<p>> \o PagesFrom(md, p + 1)

IssueAll(md, p) == PagesFrom(md, p)

\* The pages whose request the walker dispatches before it awaits: one.
IssueNow(md, p) == <<p>>

IssuePages(md, p, pending) ==
    LET ps == IssueNow(md, p) IN
    /\ requests' = requests \o [i \in 1..Len(ps) |-> PageRequest(md, ps[i])]
    /\ pagesInFlight' = pending \cup { ps[i] : i \in 1..Len(ps) }
    /\ metadata' = [md EXCEPT !.form.fields = FieldsAfterRequest(md, p)]
    /\ page' = p
    /\ pc' = "page"

\* collectAllPages after the page loop: `await enrichLectureDescriptions(combined)`.
BeginEnrich(ls, md) == Resume(enrichStart(ls, concurrency), md)

\* Variant: the handler has no catch block; its promise rejects and the
\* sender gets no response.
AbortNoAnswer(reason) ==
    /\ pc' = "done"
    /\ pagesInFlight' = pagesInFlight \ {page}
    /\ UNCHANGED <<metadata, page, requests, pagesParsed, enricher, failedLinks, resolved,
                   response>>

\* The catch block of handleCollectRequest.
Abort(reason) ==
    /\ pc' = "done"
    /\ response' = ErrorResponse(reason)
    /\ pagesInFlight' = pagesInFlight \ {page}
    /\ UNCHANGED <<metadata, page, requests, pagesParsed, enricher, failedLinks, resolved>>

\* onMessage(collectLectures): handleCollectRequest -> collectAllPages up to
\* its first await.
HandleCollectRequest ==
    /\ pc = "idle"
    /\ caller \in {"collector", "popup"}
    /\ LET md == collectMetadata(infoMatch, formInput)
           first == pushAll(<<>>, collectLectures(liveDoc))
       IN IF FirstPage(md) # 0
          THEN /\ IssuePages(md, FirstPage(md), pagesInFlight)
               /\ lectures' = first
               /\ UNCHANGED <<cacheKeys, cacheVal, index, wk, detailFetches,
                              resolved, response>>
          ELSE /\ BeginEnrich(first, md)
               /\ metadata' = md
               /\ UNCHANGED <<page, requests, pagesInFlight>>
    /\ UNCHANGED <<inputs, outside, pagesParsed, pageStatus, failedLinks>>

\* `await fetch(url, requestInit)` of fetchPageHtml settles.
PageResponse(out) ==
    /\ pc = "page"
    /\ pageStatus' = out.status
    /\ IF out.kind = "reject" THEN Abort(NetworkErrorText)
       ELSE IF ~ResponseOk(out.status) THEN Abort(PageErrorText(page, out.status))
       ELSE /\ pc' = "pageText"
            /\ UNCHANGED <<walk, enricher, failedLinks, resolved, response>>
    /\ UNCHANGED <<inputs, outside>>

\* `response.text()` settles; on success the loop body parses the page,
\* appends its rows and goes on to the next page or to the enricher.
PageText(ok) ==
    /\ pc = "pageText"
    /\ IF ok
       THEN LET combined == pushAll(lectures, collectLectures(serverPages[page])) IN
            /\ pagesParsed' = Append(pagesParsed, page)
            /\ IF NextPage(metadata, page + 1) # 0
               THEN /\ IssuePages(metadata, NextPage(metadata, page + 1),
                                   pagesInFlight \ {page})
                    /\ lectures' = combined
                    /\ UNCHANGED <<cacheKeys, cacheVal, index, wk, detailFetches,
                                   resolved, response>>
               ELSE /\ BeginEnrich(combined, metadata)
                    /\ pagesInFlight' = pagesInFlight \ {page}
                    /\ UNCHANGED <<page, requests, metadata>>
            /\ UNCHANGED failedLinks
       ELSE Abort(NetworkErrorText)
    /\ UNCHANGED <<inputs, outside, pageStatus>>

\* A direct call of enrichLectureDescriptions(lectures, concurrency).
CallEnrich ==
    /\ pc = "idle"
    /\ caller = "direct"
    /\ BeginEnrich(lectures, metadata)
    /\ UNCHANGED <<inputs, outside, walk, pageStatus, failedLinks>>

\* `await fetch(url)` of fetchLectureDetails settles for worker w: with a
\* success status the body is read next; a non-success status or a
\* rejection throws into the worker's catch block.
DetailResponse(w, out) ==
    /\ pc = "enrich"
    /\ w \in 1..Len(wk)
    /\ wk[w].st = "fetch"
    /\ IF out.kind = "response" /\ ResponseOk(out.status)
       THEN /\ wk' = [wk EXCEPT ![w].st = "text"]
            /\ UNCHANGED <<lectures, cacheKeys, cacheVal, index, detailFetches,
                           pc, resolved, response, failedLinks>>
       ELSE /\ failedLinks' = failedLinks \cup {wk[w].url}
            /\ Resume(OnFetchError(En, w), metadata)
    /\ UNCHANGED <<inputs, outside, walk, pageStatus>>

\* `await response.text()` settles for worker w: the page is parsed and the
\* worker continues with the details, or the read fails into the catch block.
DetailText(w, ok) ==
    /\ pc = "enrich"
    /\ w \in 1..Len(wk)
    /\ wk[w].st = "text"
    /\ IF ok
       THEN /\ Resume(OnDetails(En, w, detailPage[wk[w].url]), metadata)
            /\ UNCHANGED failedLinks
       ELSE /\ failedLinks' = failedLinks \cup {wk[w].url}
            /\ Resume(OnFetchError(En, w), metadata)
    /\ UNCHANGED <<inputs, outside, walk, pageStatus>>

Workers == 1..DefaultConcurrency

Next ==
    \/ HandleCollectRequest
    \/ \E out \in Outcomes : PageResponse(out)
    \/ \E ok \in BOOLEAN : PageText(ok)
    \/ \E w \in Workers, out \in Outcomes : DetailResponse(w, out)
    \/ \E w \in Workers, ok \in BOOLEAN : DetailText(w, ok)

Spec == Init /\ [][Next]_vars

\* The collection pass when every fetch the pass issues eventually settles
\* and every continuation that is ready eventually runs.
InitLive ==
    /\ Init
    /\ \E d \in Docs : serverPages = [p \in 1..MaxPages |-> d]
    /\ detailPage = [l \in Links |-> IF l = "u1" THEN Details("intro", "Room A", "Room B")
                                    ELSE Details(Undefined, "Room A", Undefined)]
    /\ formInput = [fields |-> <<Field("q", "ai")>>, method |-> "POST", detected |-> Undefined]

SpecLive == InitLive /\ [][Next]_vars /\ WF_control(Next)

NextEnrich ==
    \/ CallEnrich
    \/ \E w \in Workers, out \in Outcomes : DetailResponse(w, out)
    \/ \E w \in Workers, ok \in BOOLEAN : DetailText(w, ok)

SpecEnrich == InitEnrich /\ [][NextEnrich]_vars

(***************************************************************************)
(* A direct call of the exported generateIcsFile(lectureRows).             *)
(***************************************************************************)

\* A record as the popup holds it: every cell of the row, and the venues
\* and description a detail page may have given.
ExportRow(title, topic, department, url, main, branch) ==
    [LectureRow(0, title, url) EXCEPT
        !.mainVenue = main, !.branchVenue = branch,
        !.detailDescription = IF url = Undefined THEN Undefined ELSE " "]
    @@ [topic |-> topic, department |-> department,
        speaker |-> IF topic = "" THEN "" ELSE "Prof. Li",
        audience |-> "",
        start |-> IF title = "" THEN StartA ELSE StartB,
        end |-> EndOf(IF title = "" THEN StartA ELSE StartB)]

ExportRows ==
    { ExportRow(title, topic, department, url, main, branch) :
        title \in {"", "A"}, topic \in {"", "science"}, department \in {"", "Physics"},
        url \in {Undefined, "u1"}, main \in {Undefined, "Room A"},
        branch \in {Undefined, "Room B"} }

SampleRows ==
    { ExportRow("", "", "", Undefined, Undefined, Undefined),
      ExportRow("B", "science", "Physics", "u2", "Room A", Undefined) }

RECURSIVE SampleLists(_)
SampleLists(n) ==
    IF n = 0 THEN { <<>> }
    ELSE SampleLists(n - 1) \cup
         { Append(l, r) : l \in { x \in SampleLists(n - 1) : Len(x) = n - 1 },
                          r \in SampleRows }

ExportLists ==
    { <<>> } \cup { <<r>> \o rest : r \in ExportRows, rest \in SampleLists(MaxExportRows - 1) }

InitExport ==
    /\ caller = "export"
    /\ liveDoc = <<>>
    /\ serverPages = [p \in 1..MaxPages |-> <<>>]
    /\ detailPage = [l \in Links |-> NoDetails]
    /\ infoMatch = [matched |-> FALSE, cur |-> 0, tot |-> 0]
    /\ formInput = [fields |-> <<>>, method |-> "POST", detected |-> Undefined]
    /\ concurrency = DefaultConcurrency
    /\ lectures = <<>>
    /\ InitCommon
    /\ InitExtractorOff

\* generateIcsFile(lectureRows) and the settling of its promise.
GenerateIcs(rows, serialOk) ==
    /\ caller = "export"
    /\ icsResult.kind = "none"
    /\ icsInput' = rows
    /\ icsResult' = generateIcsFile(rows, serialOk)
    /\ downloads' = downloads + icsResult'.downloads
    /\ UNCHANGED <<inputs, collector, popup, rerun, extractor>>

NextExport == \E rows \in ExportLists, serialOk \in BOOLEAN : GenerateIcs(rows, serialOk)

SpecExport == InitExport /\ [][NextExport]_vars

(***************************************************************************)
(* The popup (src/src/worker.ts).  Its buttons are the elements that       *)
(* toggleButtons disables: a click on the refresh or the export button     *)
(* arrives only while they are enabled.                                    *)
(***************************************************************************)
CommunicationText == "cannot talk to the current page"
UnknownResponseText == "unknown response"
TypeErrorText == "Cannot read properties of undefined (reading 'type')"
NoLecturesText == "no lecture data found in the current tab"
NothingSelectedText == "select at least one lecture to export"
LoadingText == "reading the lecture list of the current page"
GeneratingText == "generating the ICS file"
FoundText(n) == "found " \o ToStr(n) \o " lectures"
ExportedText(n) == "exported " \o ToStr(n) \o " lectures"
RemainingText(n) == "lectures left after filtering: " \o ToStr(n)
NoneLeftText == "no lecture matches the current filters"

Status(message, kind) == [message |-> message, kind |-> kind]

\* What sendMessageToLectureTab resolves to: undefined when no tab is found
\* or sending throws, else the collector's response.
UndefinedResponse == [type |-> Undefined, reason |-> "", lectures |-> <<>>,
                      metadata |-> NoMetadata]

\* What requestLectures comes to: it throws, or it returns the lectures.
Threw(reason) == [threw |-> TRUE, reason |-> reason, lectures |-> <<>>]
Returned(ls) == [threw |-> FALSE, reason |-> "", lectures |-> ls]

\* Variant: the response is not tested before its type is read.
requestLecturesNoCheck(resp) ==
    IF resp.type = Undefined THEN Threw(TypeErrorText)
    ELSE IF resp.type = "error" THEN Threw(resp.reason)
    ELSE IF resp.type # "lectures" THEN Threw(UnknownResponseText)
    ELSE Returned(resp.lectures)

requestLectures(resp) ==
    IF resp.type = Undefined THEN Threw(CommunicationText)
    ELSE IF resp.type = "error" THEN Threw(resp.reason)
    ELSE IF resp.type # "lectures" THEN Threw(UnknownResponseText)
    ELSE Returned(resp.lectures)

\* A timestamp that is not a number, or is NaN.
NoTimestamp == -1

\* Date.now(): the time the popup is open at.
Now == TimeOf(<<2026, 3, 1>>)

\* dateArrayToTimestamp: the current time for a missing or short array.
dateArrayToTimestamp(array) == IF Len(array) < 3 THEN Now ELSE TimeOf(array)

\* Variant: no timestamp is made up for a record.
ensureTimestampNone(timestamp, array) == NoTimestamp

ensureTimestamp(timestamp, array) ==
    IF timestamp # NoTimestamp THEN timestamp ELSE dateArrayToTimestamp(array)

\* normalizeLectures: the id of a record is its position, and its
\* timestamps are numbers.
normalizeLectures(ls) ==
    [i \in 1..Len(ls) |->
        [ls[i] EXCEPT !.id = i - 1,
                      !.startTimestamp = ensureTimestamp(@, ls[i].start),
                      !.endTimestamp = ensureTimestamp(@, ls[i].end)]]

\* The campus names of the venue-campus filter, and the campus names a venue
\* text includes (String.prototype.includes over the venue texts of the
\* model's detail pages).
campusOptions == {"Yanqihu", "Yuquanlu", "Zhongguancun", "Aoyuncun"}

CampusesIn(venue) ==
    IF venue = "Yanqihu Hall 1" THEN {"Yanqihu"}
    ELSE IF venue = "Yuquanlu Room 2" THEN {"Yuquanlu"}
    ELSE {}

\* The keys of the filters whose accepted values are cell texts.
TextKeys == {"topic", "title", "speaker", "department", "audience", "credits"}

\* The text of a record's field as matchesFilters and populateFilterOptions
\* read it: `${value}`, the credits through String(lecture.credits).
FieldText(lecture, key) ==
    IF key = "credits" THEN ToStr(lecture.credits) ELSE lecture[key]

\* Variant: an empty accepted set matches nothing.
multiSelectMatchesMember(value, selectedValues) ==
    (IF value = Undefined THEN "" ELSE value) \in selectedValues

multiSelectMatches(value, selectedValues) ==
    selectedValues = {} \/ (IF value = Undefined THEN "" ELSE value) \in selectedValues

venueCampusMatches(lecture, selectedCampuses) ==
    LET venues == { Trim(v) : v \in {lecture.mainVenue, lecture.branchVenue} \ {Undefined} }
                    \ {""}
    IN IF selectedCampuses = {} THEN TRUE
       ELSE IF venues = {} THEN FALSE
       ELSE \E campus \in selectedCampuses : \E venue \in venues :
                campus \in CampusesIn(venue)

\* matchesFilters, the date and time-of-day bounds left open.
matchesFilters(lecture, f) ==
    /\ \A key \in TextKeys : multiSelectMatches(FieldText(lecture, key), f[key])
    /\ venueCampusMatches(lecture, f.venueCampus)

uniqueValues(values) == { Trim(v) : v \in values \ {Undefined} } \ {""}

\* The options of every multi-value filter for the records ls.
optionMap(ls) ==
    [key \in DOMAIN NoFilters |->
        IF key = "venueCampus" THEN campusOptions
        ELSE uniqueValues({ FieldText(ls[i], key) : i \in 1..Len(ls) })]

\* populateFilterOptions: accepted values that are no longer options go.
populateFilterOptions(ls, f) == [key \in DOMAIN f |-> f[key] \cap optionMap(ls)[key]]

\* applyFilters: the filtered set and the selection.
RECURSIVE FilterFrom(_, _, _)
FilterFrom(all, f, i) ==
    IF i > Len(all) THEN <<>>
    ELSE (IF matchesFilters(all[i], f) THEN <<all[i].id>> ELSE <<>>)
         \o FilterFrom(all, f, i + 1)

Ids(filtered) == { filtered[i] : i \in 1..Len(filtered) }

\* Variant: every pass of applyFilters selects all the filtered records.
applyFiltersSelectAll(all, f, selected, resetSelection) ==
    IF Len(all) = 0 THEN [filtered |-> <<>>, selected |-> {}]
    ELSE LET filtered == FilterFrom(all, f, 1) IN
         [filtered |-> filtered, selected |-> Ids(filtered)]

\* Variant: a pass of applyFilters without reset keeps the selection as it is.
applyFiltersKeepSelection(all, f, selected, resetSelection) ==
    IF Len(all) = 0 THEN [filtered |-> <<>>, selected |-> {}]
    ELSE LET filtered == FilterFrom(all, f, 1) IN
         [filtered |-> filtered,
          selected |-> IF resetSelection THEN Ids(filtered) ELSE selected]

applyFilters(all, f, selected, resetSelection) ==
    IF Len(all) = 0 THEN [filtered |-> <<>>, selected |-> {}]
    ELSE LET filtered == FilterFrom(all, f, 1) IN
         [filtered |-> filtered,
          selected |-> IF resetSelection THEN Ids(filtered)
                       ELSE Ids(filtered) \cap selected]

\* The `then` callback of loadLectureDetails.
applyPopupDetails(lecture, details) ==
    IF details.def
    THEN [lecture EXCEPT
            !.detailDescription =
                IF details.description # Undefined THEN details.description ELSE @,
            !.mainVenue = details.mainVenue,
            !.branchVenue = details.branchVenue]
    ELSE IF lecture.detailDescription = Undefined
         THEN [lecture EXCEPT !.detailDescription = ""]
         ELSE lecture

\* What a settled promise of the popup's cache holds.
SettledDetails(state, link) == IF state = "ok" THEN detailPage[link] ELSE NoDetails

\* Variant: createContentCell asks for the details of every record with a link.
NeedsDetailsAlways(lecture) == Truthy(lecture.detailUrl)

\* createContentCell calls loadLectureDetails for a record that has a link
\* and no description yet.
NeedsDetails(lecture) ==
    lecture.detailDescription = Undefined /\ Truthy(lecture.detailUrl)

\* Variant: the callback on a settled promise writes the record while the
\* table is still being rendered.
RECURSIVE RenderFromWriting(_, _, _)
RenderFromWriting(ps, filtered, i) ==
    IF i > Len(filtered) THEN ps
    ELSE LET lecture == ps.all[filtered[i] + 1]
             link == lecture.detailUrl
         IN IF ~NeedsDetails(lecture) THEN RenderFromWriting(ps, filtered, i + 1)
            ELSE LET fetched ==
                        IF ps.cache[link] = "absent"
                        THEN [ps EXCEPT !.cache[link] = "pending",
                                        !.log = Append(@, link)]
                        ELSE ps
                     hooked ==
                        IF fetched.cache[link] = "pending"
                        THEN [fetched EXCEPT !.thens = @ \cup {lecture.id}]
                        ELSE [fetched EXCEPT !.all[filtered[i] + 1] =
                                applyPopupDetails(@, SettledDetails(fetched.cache[link], link))]
                 IN RenderFromWriting(hooked, filtered, i + 1)

\* renderLectures over the filtered records from position i on: a fetch for
\* each link not in the cache, a callback on the link's promise for each
\* record that needs details. A callback on a promise that is settled
\* already is queued: it runs when the handler has returned.
RECURSIVE RenderFrom(_, _, _)
RenderFrom(ps, filtered, i) ==
    IF i > Len(filtered) THEN ps
    ELSE LET lecture == ps.all[filtered[i] + 1]
             link == lecture.detailUrl
         IN IF ~NeedsDetails(lecture) THEN RenderFrom(ps, filtered, i + 1)
            ELSE LET fetched ==
                        IF ps.cache[link] = "absent"
                        THEN [ps EXCEPT !.cache[link] = "pending",
                                        !.log = Append(@, link)]
                        ELSE ps
                     hooked ==
                        IF fetched.cache[link] = "pending"
                        THEN [fetched EXCEPT !.thens = @ \cup {lecture.id}]
                        ELSE [fetched EXCEPT !.queued = @ \cup {lecture.id}]
                 IN RenderFrom(hooked, filtered, i + 1)

renderLectures(all, filtered, cache, log, waiting) ==
    RenderFrom([all |-> all, cache |-> cache, log |-> log, thens |-> waiting,
                queued |-> {}], filtered, 1)

\* The queued callbacks run, each on its record, once the handler that
\* rendered the table has returned.
runCallbacks(ps) ==
    [ps EXCEPT !.all =
        [i \in 1..Len(ps.all) |->
            IF ps.all[i].id \in ps.queued
            THEN applyPopupDetails(ps.all[i],
                    SettledDetails(ps.cache[ps.all[i].detailUrl], ps.all[i].detailUrl))
            ELSE ps.all[i]]]

\* Variant: every filtered record is handed to the exporter.
RECURSIVE SelectedFromAll(_, _, _, _)
SelectedFromAll(all, filtered, selected, i) ==
    IF i > Len(filtered) THEN <<>>
    ELSE <<all[filtered[i] + 1]>> \o SelectedFromAll(all, filtered, selected, i + 1)

\* The rows exportLectures hands to the exporter.
RECURSIVE SelectedFrom(_, _, _, _)
SelectedFrom(all, filtered, selected, i) ==
    IF i > Len(filtered) THEN <<>>
    ELSE (IF filtered[i] \in selected THEN <<all[filtered[i] + 1]>> ELSE <<>>)
         \o SelectedFrom(all, filtered, selected, i + 1)

\* Variant: no finally block, the buttons stay as the handler left them.
FinallyButtonsKept == TRUE

\* finally { toggleButtons(false) }
FinallyButtons == FALSE

\* What the detail pages behind the links of those pages parse to: with
\* and without a description.
PopupSources ==
    { [l \in Links |-> IF l = "u1" THEN Details("intro", "Room A", "Room B")
                       ELSE Details(Undefined, "Room A", Undefined)] }

\* A lecture page is open in some tab, or none is; the popup is opened.
PopupDocs == { <<>>, <<HeaderRow, Row("A", "u1")>>, <<Row("B", "u1"), BadTimeRow, Row("C", Undefined)>> }

InitPopup ==
    /\ caller = "popup"
    /\ liveDoc \in PopupDocs
    /\ serverPages = [p \in 1..MaxPages |-> <<Row("D", "u2")>>]
    /\ detailPage \in PopupSources
    /\ infoMatch \in { [matched |-> FALSE, cur |-> 0, tot |-> 0],
                       [matched |-> TRUE, cur |-> 1, tot |-> 2] }
    /\ formInput = [fields |-> <<>>, method |-> "POST", detected |-> Undefined]
    /\ concurrency = DefaultConcurrency
    /\ lectures = <<>>
    /\ InitPopupOff
    /\ InitExporterOff
    /\ InitRerunOff
    /\ InitExtractorOff
    /\ pc = "off"
    /\ metadata = NoMetadata
    /\ page = 0
    /\ requests = <<>>
    /\ pagesInFlight = {}
    /\ pagesParsed = <<>>
    /\ pageStatus = 0
    /\ cacheKeys = {}
    /\ cacheVal = [l \in Links |-> NoDetails]
    /\ index = 0
    /\ wk = <<>>
    /\ detailFetches = <<>>
    /\ failedLinks = {}
    /\ resolved = FALSE
    /\ response = NoResponse

\* The state before a pass over the record array ls.
BeforePass(ls) ==
    /\ pc' = "idle"
    /\ metadata' = NoMetadata
    /\ page' = 0
    /\ requests' = <<>>
    /\ pagesInFlight' = {}
    /\ pagesParsed' = <<>>
    /\ pageStatus' = 0
    /\ lectures' = ls
    /\ cacheKeys' = {}
    /\ cacheVal' = [l \in Links |-> NoDetails]
    /\ index' = 0
    /\ wk' = <<>>
    /\ detailFetches' = <<>>
    /\ failedLinks' = {}
    /\ resolved' = FALSE
    /\ response' = NoResponse

\* The content script gets a collectLectures message: a new pass.
NewPass == BeforePass(<<>>)

\* DOMContentLoaded, or a click on the refresh button: loadLectures up to
\* `await requestLectures()`, and sendMessageToLectureTab, which finds the
\* tab and delivers the message or catches the failure.
LoadLectures(delivered) ==
    /\ caller = "popup"
    /\ popPc = "off" \/ (popPc = "ready" /\ ~buttonsDisabled)
    /\ loads < MaxLoads
    /\ loads' = loads + 1
    /\ status' = Status(LoadingText, "info")
    /\ buttonsDisabled' = TRUE
    /\ popPc' = "loading"
    /\ sent' = IF delivered THEN "delivered" ELSE "lost"
    /\ IF delivered THEN NewPass ELSE UNCHANGED collector
    /\ UNCHANGED <<inputs, allLectures, filteredLectures, selectedLectureIds, filters,
                   lectureDetailsCache, thens, popupFetches, exporter, rerun, extractor>>

\* clearTable()
ClearTable ==
    /\ allLectures' = <<>>
    /\ filteredLectures' = <<>>
    /\ selectedLectureIds' = {}
    /\ filters' = populateFilterOptions(<<>>, filters)
    /\ thens' = {}
    /\ UNCHANGED <<lectureDetailsCache, popupFetches>>

\* The response arrives: the rest of loadLectures.
ReceiveResponse ==
    /\ popPc = "loading"
    /\ sent = "lost" \/ (sent = "delivered" /\ pc = "done")
    /\ LET result == requestLectures(IF sent = "lost" THEN UndefinedResponse ELSE response)
           normalized == normalizeLectures(result.lectures)
       IN IF result.threw
          THEN /\ ClearTable
               /\ status' = Status(result.reason, "error")
          ELSE IF Len(normalized) = 0
          THEN /\ ClearTable
               /\ status' = Status(NoLecturesText, "error")
          ELSE LET f == populateFilterOptions(normalized, filters)
                   applied == applyFilters(normalized, f, selectedLectureIds, TRUE)
                   ps == runCallbacks(renderLectures(normalized, applied.filtered,
                                        lectureDetailsCache, popupFetches, {}))
               IN /\ allLectures' = ps.all
                  /\ filters' = f
                  /\ filteredLectures' = applied.filtered
                  /\ selectedLectureIds' = applied.selected
                  /\ lectureDetailsCache' = ps.cache
                  /\ popupFetches' = ps.log
                  /\ thens' = ps.thens
                  /\ status' = Status(FoundText(Len(normalized)), "success")
    /\ buttonsDisabled' = FinallyButtons
    /\ popPc' = "ready"
    /\ sent' = "none"
    /\ UNCHANGED <<inputs, collector, loads, exporter, rerun, extractor>>

\* A click on the export button: exportLectures up to `await generateIcsFile`.
ExportLectures(serialOk) ==
    /\ popPc = "ready"
    /\ ~buttonsDisabled
    /\ downloads < MaxDownloads
    /\ LET selectedLectures ==
               SelectedFrom(allLectures, filteredLectures, selectedLectureIds, 1)
           result == generateIcsFile(selectedLectures, serialOk)
       IN IF Len(selectedLectures) = 0
          THEN /\ status' = Status(NothingSelectedText, "error")
               /\ UNCHANGED <<buttonsDisabled, popPc, exporter>>
          ELSE /\ downloads' = downloads + result.downloads
               /\ IF result.kind = "throw"
                  THEN /\ status' = Status(result.reason, "error")
                       /\ buttonsDisabled' = FinallyButtons
                       /\ UNCHANGED <<popPc, icsInput, icsResult>>
                  ELSE /\ status' = Status(GeneratingText, "info")
                       /\ buttonsDisabled' = TRUE
                       /\ popPc' = "exporting"
                       /\ icsInput' = selectedLectures
                       /\ icsResult' = result
    /\ UNCHANGED <<inputs, collector, sent, allLectures, filteredLectures,
                   selectedLectureIds, filters, lectureDetailsCache, thens, popupFetches,
                   loads, rerun, extractor>>

\* The promise of generateIcsFile settles: the rest of exportLectures.
ExportSettled ==
    /\ popPc = "exporting"
    /\ status' = IF icsResult.kind = "resolve"
                 THEN Status(ExportedText(icsResult.count), "success")
                 ELSE Status(icsResult.reason, "error")
    /\ buttonsDisabled' = FinallyButtons
    /\ popPc' = "ready"
    /\ icsInput' = <<>>
    /\ icsResult' = NoIcsResult
    /\ UNCHANGED <<inputs, collector, sent, allLectures, filteredLectures,
                   selectedLectureIds, filters, lectureDetailsCache, thens, popupFetches,
                   loads, downloads, rerun, extractor>>

\* The option boxes exist once populateFilterOptions has run, that is once
\* a load has come to its end.
OptionsRendered ==
    popPc \in {"ready", "exporting"} \/ (popPc = "loading" /\ loads > 1)

\* The "all" option of a multi-value filter.
AllOption == ""

\* A change of one option of a multi-value filter: handleMultiSelectChange
\* and applyFilters({ updateStatus: true }). Checking the "all" option
\* empties the accepted set; unchecking it is undone without filtering.
FilterChangeOf(key, value) ==
    /\ popPc \in {"ready", "loading", "exporting"}
    /\ OptionsRendered
    /\ \/ value \in optionMap(allLectures)[key]
       \/ value = AllOption /\ filters[key] # {} /\ optionMap(allLectures)[key] # {}
    /\ LET f == [filters EXCEPT ![key] =
                    IF value = AllOption THEN {}
                    ELSE IF value \in @ THEN @ \ {value} ELSE @ \cup {value}]
           applied == applyFilters(allLectures, f, selectedLectureIds, FALSE)
           ps == runCallbacks(renderLectures(allLectures, applied.filtered,
                                lectureDetailsCache, popupFetches, thens))
       IN /\ filters' = f
          /\ allLectures' = ps.all
          /\ filteredLectures' = applied.filtered
          /\ selectedLectureIds' = applied.selected
          /\ lectureDetailsCache' = ps.cache
          /\ popupFetches' = ps.log
          /\ thens' = ps.thens
          /\ status' = IF Len(applied.filtered) > 0
                       THEN Status(RemainingText(Len(applied.filtered)), "info")
                       ELSE Status(NoneLeftText, "error")
    /\ UNCHANGED <<inputs, collector, popPc, sent, buttonsDisabled, loads, exporter, rerun, extractor>>

\* A change of one option of the title filter.
FilterChange(value) == FilterChangeOf("title", value)

\* A click on the select-all button: selectAllLectures.
SelectAllLectures ==
    /\ popPc \in {"ready", "loading", "exporting"}
    /\ Len(filteredLectures) > 0
    /\ selectedLectureIds' = selectedLectureIds \cup Ids(filteredLectures)
    /\ UNCHANGED <<inputs, collector, popPc, sent, buttonsDisabled, status, allLectures,
                   filteredLectures, filters, lectureDetailsCache, thens, popupFetches,
                   loads, exporter, rerun, extractor>>

\* A click on the clear-selection button: clearSelectedLectures.
ClearSelectedLectures ==
    /\ popPc \in {"ready", "loading", "exporting"}
    /\ selectedLectureIds # {}
    /\ selectedLectureIds' = {}
    /\ UNCHANGED <<inputs, collector, popPc, sent, buttonsDisabled, status, allLectures,
                   filteredLectures, filters, lectureDetailsCache, thens, popupFetches,
                   loads, exporter, rerun, extractor>>

\* A change of the checkbox of a rendered record.
ToggleSelection(id) ==
    /\ popPc \in {"ready", "loading", "exporting"}
    /\ id \in Ids(filteredLectures)
    /\ selectedLectureIds' = IF id \in selectedLectureIds THEN selectedLectureIds \ {id}
                             ELSE selectedLectureIds \cup {id}
    /\ UNCHANGED <<inputs, collector, popPc, sent, buttonsDisabled, status, allLectures,
                   filteredLectures, filters, lectureDetailsCache, thens, popupFetches,
                   loads, exporter, rerun, extractor>>

\* The fetch behind a cached promise settles: fetchLectureDetails returned
\* the details, or its failure was caught and the promise holds undefined;
\* the callbacks waiting on the promise run.
PopupDetailSettled(link, ok) ==
    /\ caller = "popup"
    /\ lectureDetailsCache[link] = "pending"
    /\ LET state == IF ok THEN "ok" ELSE "failed" IN
       /\ lectureDetailsCache' = [lectureDetailsCache EXCEPT ![link] = state]
       /\ allLectures' =
             [i \in 1..Len(allLectures) |->
                IF allLectures[i].id \in thens /\ allLectures[i].detailUrl = link
                THEN applyPopupDetails(allLectures[i], SettledDetails(state, link))
                ELSE allLectures[i]]
    /\ thens' = { id \in thens : allLectures[id + 1].detailUrl # link }
    /\ UNCHANGED <<inputs, collector, popPc, sent, buttonsDisabled, status,
                   filteredLectures, selectedLectureIds, filters, popupFetches, loads,
                   exporter, rerun, extractor>>

\* The options and checkboxes the user of the model touches.
FilterValues == {"A", "B"}
ToggleIds == {0, 1}

\* What a fetch of the content script settles to while the popup waits.
PopupOutcomes == { Settled(200), Settled(404) }

NextPopup ==
    \/ \E delivered \in BOOLEAN : LoadLectures(delivered)
    \/ HandleCollectRequest
    \/ \E out \in PopupOutcomes : PageResponse(out)
    \/ \E ok \in BOOLEAN : PageText(ok)
    \/ \E w \in Workers, out \in PopupOutcomes : DetailResponse(w, out)
    \/ \E w \in Workers, ok \in BOOLEAN : DetailText(w, ok)
    \/ ReceiveResponse
    \/ \E serialOk \in BOOLEAN : ExportLectures(serialOk)
    \/ ExportSettled
    \/ \E value \in FilterValues : FilterChange(value)
    \/ \E id \in ToggleIds : ToggleSelection(id)
    \/ \E link \in Links, ok \in BOOLEAN : PopupDetailSettled(link, ok)

SpecPopup == InitPopup /\ [][NextPopup]_vars

(***************************************************************************)
(* The popup with every control of its selection panel and its filters:    *)
(* the lecture pages give venues on campus, and the user also changes the  *)
(* venue-campus filter, selects all and clears the selection.              *)
(***************************************************************************)
\* A page of three lectures without detail links.
FilterDoc == <<Row("A", Undefined), Row("B", Undefined), HeaderRow, Row("C", Undefined)>>

CampusSource ==
    [l \in Links |-> IF l = "u1" THEN Details("intro", "Yanqihu Hall 1", "Room B")
                     ELSE Details(Undefined, "Yuquanlu Room 2", Undefined)]

InitSelectOn(docs) ==
    /\ caller = "popup"
    /\ liveDoc \in docs
    /\ serverPages = [p \in 1..MaxPages |-> <<Row("D", "u2")>>]
    /\ detailPage = CampusSource
    /\ infoMatch \in { [matched |-> FALSE, cur |-> 0, tot |-> 0],
                       [matched |-> TRUE, cur |-> 1, tot |-> 2] }
    /\ formInput = [fields |-> <<>>, method |-> "POST", detected |-> Undefined]
    /\ concurrency = DefaultConcurrency
    /\ lectures = <<>>
    /\ InitPopupOff
    /\ InitExporterOff
    /\ InitRerunOff
    /\ InitExtractorOff
    /\ pc = "off"
    /\ metadata = NoMetadata
    /\ page = 0
    /\ requests = <<>>
    /\ pagesInFlight = {}
    /\ pagesParsed = <<>>
    /\ pageStatus = 0
    /\ cacheKeys = {}
    /\ cacheVal = [l \in Links |-> NoDetails]
    /\ index = 0
    /\ wk = <<>>
    /\ detailFetches = <<>>
    /\ failedLinks = {}
    /\ resolved = FALSE
    /\ response = NoResponse

InitSelect == InitSelectOn(PopupDocs)

\* The filters and options the user of the model touches.
SelectKeys == {"title", "venueCampus"}
SelectValues == {"B", "D", "Yanqihu", AllOption}

NextSelect ==
    \/ \E delivered \in BOOLEAN : LoadLectures(delivered)
    \/ HandleCollectRequest
    \/ \E out \in PopupOutcomes : PageResponse(out)
    \/ \E ok \in BOOLEAN : PageText(ok)
    \/ \E w \in Workers, out \in PopupOutcomes : DetailResponse(w, out)
    \/ \E w \in Workers, ok \in BOOLEAN : DetailText(w, ok)
    \/ ReceiveResponse
    \/ \E key \in SelectKeys, value \in SelectValues : FilterChangeOf(key, value)
    \/ \E id \in ToggleIds : ToggleSelection(id)
    \/ SelectAllLectures
    \/ ClearSelectedLectures
    \/ \E link \in Links, ok \in BOOLEAN : PopupDetailSettled(link, ok)

SpecSelect == InitSelect /\ [][NextSelect]_vars

(***************************************************************************)
(* The popup over one page of three lectures without detail links, the     *)
(* user changing every multi-value filter that takes cell texts.           *)
(***************************************************************************)

InitFilter ==
    /\ InitSelectOn({FilterDoc})
    /\ ~infoMatch.matched

\* One option of each filter.
OptionOf ==
    [topic |-> "science", title |-> "B", speaker |-> "Prof. Li",
     department |-> "Physics", audience |-> "graduate", credits |-> "1"]

NextFilter ==
    \/ \E delivered \in BOOLEAN : LoadLectures(delivered)
    \/ HandleCollectRequest
    \/ ReceiveResponse
    \/ \E key \in TextKeys : FilterChangeOf(key, OptionOf[key])
    \/ \E key \in TextKeys : FilterChangeOf(key, AllOption)
    \/ SelectAllLectures

SpecFilter == InitFilter /\ [][NextFilter]_vars

(***************************************************************************)
(* The popup reloading after the lecture tab has moved to another page:    *)
(* the popup is opened on a page of two lectures, and the pages the tab    *)
(* moves to, like the pages the server sends, may have no accepted row.    *)
(***************************************************************************)
\* The page the popup is opened on.
ListDoc == <<Row("A", Undefined), Row("B", Undefined)>>

\* The pages the tab may move to.
EmptyDocs == { <<>>, <<HeaderRow, BadTimeRow>>, ListDoc }

\* The tables the server may send for a page.
EmptyPages == { <<HeaderRow, BadTimeRow>>, <<Row("D", Undefined)>> }

InitEmpty ==
    /\ caller = "popup"
    /\ liveDoc = ListDoc
    /\ serverPages \in [1..MaxPages -> EmptyPages]
    /\ detailPage = CampusSource
    /\ infoMatch \in { [matched |-> FALSE, cur |-> 0, tot |-> 0],
                       [matched |-> TRUE, cur |-> 1, tot |-> 2] }
    /\ formInput = [fields |-> <<>>, method |-> "POST", detected |-> Undefined]
    /\ concurrency = DefaultConcurrency
    /\ lectures = <<>>
    /\ InitPopupOff
    /\ InitExporterOff
    /\ InitRerunOff
    /\ InitExtractorOff
    /\ pc = "off"
    /\ metadata = NoMetadata
    /\ page = 0
    /\ requests = <<>>
    /\ pagesInFlight = {}
    /\ pagesParsed = <<>>
    /\ pageStatus = 0
    /\ cacheKeys = {}
    /\ cacheVal = [l \in Links |-> NoDetails]
    /\ index = 0
    /\ wk = <<>>
    /\ detailFetches = <<>>
    /\ failedLinks = {}
    /\ resolved = FALSE
    /\ response = NoResponse

\* The lecture tab loads another page while the popup is idle; the content
\* script of the new page answers the next collectLectures message.
Navigate(doc) ==
    /\ caller = "popup"
    /\ popPc = "ready"
    /\ doc # liveDoc
    /\ liveDoc' = doc
    /\ UNCHANGED <<caller, serverPages, detailPage, infoMatch, formInput, concurrency,
                   collector, outside>>

NextEmpty ==
    \/ LoadLectures(TRUE)
    \/ HandleCollectRequest
    \/ \E out \in PopupOutcomes : PageResponse(out)
    \/ \E ok \in BOOLEAN : PageText(ok)
    \/ ReceiveResponse
    \/ \E id \in ToggleIds : ToggleSelection(id)
    \/ ClearSelectedLectures
    \/ \E doc \in EmptyDocs : Navigate(doc)

SpecEmpty == InitEmpty /\ [][NextEmpty]_vars

\* The step of ReceiveResponse, by its guard and its change of popPc alone:
\* the continuation of loadLectures has the response and runs.
ResponseArrives ==
    /\ popPc = "loading"
    /\ sent = "lost" \/ (sent = "delivered" /\ pc = "done")
    /\ popPc' = "ready"
    /\ UNCHANGED <<pc, wk>>

\* The steps the popup waits for while its buttons are disabled: the
\* content script's handler and its fetches, the response, the exporter's
\* promise.
Settle ==
    \/ HandleCollectRequest
    \/ \E out \in PopupOutcomes : PageResponse(out)
    \/ \E ok \in BOOLEAN : PageText(ok)
    \/ \E w \in Workers, out \in PopupOutcomes : DetailResponse(w, out)
    \/ \E w \in Workers, ok \in BOOLEAN : DetailText(w, ok)
    \/ ResponseArrives
    \/ ExportSettled

\* The popup when every message, fetch and promise it waits for settles and
\* every continuation that is ready runs.
\* The lecture pages the progress of the popup is followed on.
InitPopupLive ==
    /\ InitPopup
    /\ liveDoc \in { <<>>, <<HeaderRow, Row("A", "u1")>> }
    /\ detailPage = [l \in Links |-> IF l = "u1" THEN Details("intro", "Room A", "Room B")
                                    ELSE Details(Undefined, "Room A", Undefined)]

\* The steps of the popup whose buttons are followed: the filters are left
\* as the load set them (no handler of a filter touches the buttons).
NextPopupLive ==
    \/ \E delivered \in BOOLEAN : LoadLectures(delivered)
    \/ HandleCollectRequest
    \/ \E out \in PopupOutcomes : PageResponse(out)
    \/ \E ok \in BOOLEAN : PageText(ok)
    \/ \E w \in Workers, out \in PopupOutcomes : DetailResponse(w, out)
    \/ \E w \in Workers, ok \in BOOLEAN : DetailText(w, ok)
    \/ ReceiveResponse
    \/ \E serialOk \in BOOLEAN : ExportLectures(serialOk)
    \/ ExportSettled
    \/ \E id \in ToggleIds : ToggleSelection(id)
    \/ \E link \in Links, ok \in BOOLEAN : PopupDetailSettled(link, ok)

SpecPopupLive == InitPopupLive /\ [][NextPopupLive]_vars /\ WF_control(Settle)

(***************************************************************************)
(* Two passes over an unchanged source: every URL answers the second pass  *)
(* as it answered the first.  The pass is the collector's (with its cap),  *)
(* or a direct call of the enricher with a cap of its own.                 *)
(***************************************************************************)
UrlResponse(out, text) == [out |-> out, text |-> text]

\* A URL answers with a page, with a page whose body cannot be read, with
\* a failure status, or not at all.
UrlResponses ==
    { UrlResponse(Settled(200), TRUE), UrlResponse(Settled(200), FALSE),
      UrlResponse(Settled(404), TRUE), UrlResponse(Rejected, TRUE) }

NoFirstRun == [given |-> <<>>, result |-> <<>>]

InitTwice ==
    /\ \/ /\ caller = "collector"
          /\ liveDoc \in PopupDocs
          /\ serverPages = [p \in 1..MaxPages |-> <<Row("D", "u2")>>]
          /\ detailPage \in DetailSources
          /\ infoMatch \in { [matched |-> FALSE, cur |-> 0, tot |-> 0],
                             [matched |-> TRUE, cur |-> 1, tot |-> 2] }
          /\ concurrency = DefaultConcurrency
          /\ lectures = <<>>
       \/ /\ caller = "direct"
          /\ liveDoc = <<>>
          /\ serverPages = [p \in 1..MaxPages |-> <<>>]
          /\ detailPage = [l \in Links |-> IF l = "u1" THEN Details("intro", "Room A", "Room B")
                                          ELSE Details(Undefined, "Room A", Undefined)]
          /\ infoMatch = [matched |-> FALSE, cur |-> 0, tot |-> 0]
          /\ concurrency \in 1..MaxConcurrency
          /\ lectures \in RecordLists
    /\ formInput = [fields |-> <<>>, method |-> "POST", detected |-> Undefined]
    /\ urlOutcome \in { [link |-> ls, page |-> [p \in 1..MaxPages |-> pg]] :
                          ls \in [Links -> UrlResponses], pg \in UrlResponses }
    /\ firstRun = [NoFirstRun EXCEPT !.given = lectures]
    /\ runs = 0
    /\ InitPopupOff
    /\ InitExporterOff
    /\ InitExtractorOff
    /\ pc = "idle"
    /\ metadata = NoMetadata
    /\ page = 0
    /\ requests = <<>>
    /\ pagesInFlight = {}
    /\ pagesParsed = <<>>
    /\ pageStatus = 0
    /\ cacheKeys = {}
    /\ cacheVal = [l \in Links |-> NoDetails]
    /\ index = 0
    /\ wk = <<>>
    /\ detailFetches = <<>>
    /\ failedLinks = {}
    /\ resolved = FALSE
    /\ response = NoResponse

\* What a pass came to, ids left out: the record array of a direct call,
\* the response of the collector.
NoIds(ls) == [i \in 1..Len(ls) |-> [ls[i] EXCEPT !.id = 0]]

PassResult ==
    IF caller = "direct" THEN [type |-> "array", reason |-> "", lectures |-> NoIds(lectures)]
    ELSE [type |-> response.type, reason |-> response.reason,
          lectures |-> NoIds(response.lectures)]

\* The first pass is over; the same request is made again.
RunAgain ==
    /\ pc = "done"
    /\ runs = 0
    /\ runs' = 1
    /\ firstRun' = [firstRun EXCEPT !.result = PassResult]
    /\ BeforePass(firstRun.given)
    /\ UNCHANGED <<inputs, popup, exporter, urlOutcome, extractor>>

NextTwice ==
    \/ HandleCollectRequest
    \/ CallEnrich
    \/ pc = "page" /\ PageResponse(urlOutcome.page[page].out)
    \/ pc = "pageText" /\ PageText(urlOutcome.page[page].text)
    \/ \E w \in Workers :
          /\ pc = "enrich" /\ w \in 1..Len(wk) /\ wk[w].st = "fetch"
          /\ DetailResponse(w, urlOutcome.link[wk[w].url].out)
    \/ \E w \in Workers :
          /\ pc = "enrich" /\ w \in 1..Len(wk) /\ wk[w].st = "text"
          /\ DetailText(w, urlOutcome.link[wk[w].url].text)
    \/ RunAgain

SpecTwice == InitTwice /\ [][NextTwice]_vars

(***************************************************************************)
(* extractLectureDetails(doc): the scan of the table rows of a detail      *)
(* page. A row is reduced to what the scan reads from it: whether its text *)
(* is blank, whether it holds the heading of the introduction, its         *)
(* normalized text, the venues extractVenuesFromRowText finds in that      *)
(* text, and its td cells. A cell is reduced to what parseLabeledCell      *)
(* makes of it: the kind of its label ("main" for a label with the         *)
(* main-venue word, "branch" for one with the branch-venue word, "other"   *)
(* for another label, "none" for text without a colon) and the value       *)
(* after the colon, or the text itself.                                    *)
(***************************************************************************)
DetailCell(label, value) == [label |-> label, value |-> value]

DetailRow(text, rowMain, rowBranch, cells) ==
    [blank |-> FALSE, intro |-> FALSE, text |-> text, rowMain |-> rowMain,
     rowBranch |-> rowBranch, cells |-> cells]

\* A row of white space.
BlankRow == [DetailRow("", Undefined, Undefined, <<>>) EXCEPT !.blank = TRUE]

\* The row with the heading of the introduction.
IntroHeading ==
    [DetailRow("Lecture introduction", Undefined, Undefined,
               <<DetailCell("none", "Lecture introduction")>>) EXCEPT !.intro = TRUE]

\* A row of one cell of text.
PlainRow(text) == DetailRow(text, Undefined, Undefined, <<DetailCell("none", text)>>)

\* The label of a venue in its long form, the one the row-text pattern
\* looks for, and in its short form.
LongLabelText(kind) == IF kind = "main" THEN "main venue place:" ELSE "branch venue place:"
ShortLabelText(kind) == IF kind = "main" THEN "main venue:" ELSE "branch venue:"

\* A row of one td cell "<long label>value": the row-text pattern and the
\* cell label both find the value.
LongLabelRow(kind, value) ==
    DetailRow(LongLabelText(kind) \o value,
              IF kind = "main" THEN value ELSE Undefined,
              IF kind = "branch" THEN value ELSE Undefined,
              <<DetailCell(kind, value)>>)

\* A row of one td cell "<short label>value": only the cell label finds it.
ShortLabelRow(kind, value) ==
    DetailRow(ShortLabelText(kind) \o value, Undefined, Undefined,
              <<DetailCell(kind, value)>>)

\* A row of one th cell "<long label>value": only the row-text pattern
\* finds it, the row has no td cell.
HeadLabelRow(kind, value) ==
    DetailRow(LongLabelText(kind) \o value,
              IF kind = "main" THEN value ELSE Undefined,
              IF kind = "branch" THEN value ELSE Undefined,
              <<>>)

\* A row of two td cells, "<long label>" and "value".
SplitLabelRow(kind, value) ==
    DetailRow(LongLabelText(kind) \o value,
              IF kind = "main" THEN value ELSE Undefined,
              IF kind = "branch" THEN value ELSE Undefined,
              <<DetailCell(kind, ""), DetailCell("none", value)>>)

\* Variant: a labelled cell gives a venue only while the venue is not set.
RECURSIVE ScanCellsFirstWins(_, _, _, _)
ScanCellsFirstWins(d, cells, k, consumed) ==
    IF k > Len(cells) THEN d
    ELSE IF k \in consumed \/ cells[k].label = "none"
    THEN ScanCellsFirstWins(d, cells, k + 1, consumed)
    ELSE LET useNext == /\ cells[k].value = ""
                        /\ k + 1 <= Len(cells)
                        /\ cells[k + 1].label = "none"
                        /\ cells[k + 1].value # ""
             resolvedValue == IF cells[k].value # "" THEN cells[k].value
                              ELSE IF useNext THEN cells[k + 1].value ELSE ""
             consumedNow == IF useNext THEN consumed \cup {k + 1} ELSE consumed
             written ==
                IF resolvedValue = "" THEN d
                ELSE IF cells[k].label = "main" /\ Falsy(d.mainVenue)
                THEN [d EXCEPT !.mainVenue = resolvedValue]
                ELSE IF cells[k].label = "branch" /\ Falsy(d.branchVenue)
                THEN [d EXCEPT !.branchVenue = resolvedValue]
                ELSE d
         IN ScanCellsFirstWins(written, cells, k + 1, consumedNow)

\* cells.forEach of extractLectureDetails from cell k on: a labelled cell
\* with a value, its own or the text of the next cell, gives the main or
\* the branch venue.
RECURSIVE ScanCells(_, _, _, _)
ScanCells(d, cells, k, consumed) ==
    IF k > Len(cells) THEN d
    ELSE IF k \in consumed \/ cells[k].label = "none"
    THEN ScanCells(d, cells, k + 1, consumed)
    ELSE LET useNext == /\ cells[k].value = ""
                        /\ k + 1 <= Len(cells)
                        /\ cells[k + 1].label = "none"
                        /\ cells[k + 1].value # ""
             resolvedValue == IF cells[k].value # "" THEN cells[k].value
                              ELSE IF useNext THEN cells[k + 1].value ELSE ""
             consumedNow == IF useNext THEN consumed \cup {k + 1} ELSE consumed
             written ==
                IF resolvedValue = "" THEN d
                ELSE IF cells[k].label = "main" THEN [d EXCEPT !.mainVenue = resolvedValue]
                ELSE IF cells[k].label = "branch" THEN [d EXCEPT !.branchVenue = resolvedValue]
                ELSE d
         IN ScanCells(written, cells, k + 1, consumedNow)

\* One pass of the loop of extractLectureDetails, over the row rows[i].
scanRow(d, rows, i) ==
    LET row == rows[i] IN
    IF row.blank THEN d
    ELSE IF row.intro
    THEN IF i + 1 <= Len(rows) /\ rows[i + 1].text # ""
         THEN [d EXCEPT !.description = rows[i + 1].text]
         ELSE d
    ELSE LET withMain == IF Truthy(row.rowMain) /\ Falsy(d.mainVenue)
                         THEN [d EXCEPT !.mainVenue = row.rowMain] ELSE d
             withBranch == IF Truthy(row.rowBranch) /\ Falsy(withMain.branchVenue)
                           THEN [withMain EXCEPT !.branchVenue = row.rowBranch]
                           ELSE withMain
         IN ScanCells(withBranch, row.cells, 1, {})

\* The rows of the detail pages, and the pages of up to MaxDetailRows rows.
DetailRowChoices ==
    { BlankRow, IntroHeading, PlainRow("about the talk"),
      LongLabelRow("main", "Hall 1"), LongLabelRow("main", "Hall 2"),
      ShortLabelRow("main", "Hall 2"), HeadLabelRow("main", "Hall 3"),
      SplitLabelRow("main", "Hall 4"),
      LongLabelRow("branch", "Room 5"), ShortLabelRow("branch", "Room 6") }

DetailDocs == UNION { [1..n -> DetailRowChoices] : n \in 0..MaxDetailRows }

\* extractLectureDetails is called on a detail page.
InitExtract ==
    /\ caller = "extract"
    /\ liveDoc = <<>>
    /\ serverPages = [p \in 1..MaxPages |-> <<>>]
    /\ detailPage = [l \in Links |-> NoDetails]
    /\ infoMatch = [matched |-> FALSE, cur |-> 0, tot |-> 0]
    /\ formInput = [fields |-> <<>>, method |-> "POST", detected |-> Undefined]
    /\ concurrency = DefaultConcurrency
    /\ lectures = <<>>
    /\ InitCommon
    /\ detailRows \in DetailDocs
    /\ detailsSoFar = NoDetailsYet
    /\ rowIndex = 0

\* The body of the loop for the row at index rowIndex.
ScanRow ==
    /\ caller = "extract"
    /\ rowIndex < Len(detailRows)
    /\ detailsSoFar' = scanRow(detailsSoFar, detailRows, rowIndex + 1)
    /\ rowIndex' = rowIndex + 1
    /\ UNCHANGED <<inputs, collector, popup, exporter, rerun, detailRows>>

NextExtract == ScanRow

SpecExtract == InitExtract /\ [][NextExtract]_vars

TypeOK ==
    /\ pc \in {"off", "idle", "page", "pageText", "enrich", "done"}
    /\ index \in 0..Len(lectures)
    /\ cacheKeys \subseteq Links

(***************************************************************************)
(* Properties.                                                             *)
(***************************************************************************)
\* Number of detail fetches issued for link l so far.
FetchCount(l) == Cardinality({ i \in 1..Len(detailFetches) : detailFetches[i] = l })

FetchCountNext(l) == Cardinality({ i \in 1..Len(detailFetches') : detailFetches'[i] = l })

RecordsWith(l) == { i \in 1..Len(lectures) : lectures[i].detailUrl = l }

\* C1: within one call of enrichLectureDescriptions at most one fetch is
\* issued for any detail link, however many records share it and however
\* the workers interleave.
C1_OneFetchPerLink == \A l \in Links : FetchCount(l) <= 1

\* C2: at every moment the number of detail fetches in flight is at most
\* the concurrency cap.
C2_InFlightWithinCap == Cardinality(InFlight) <= concurrency

\* The cap is reached while records are still waiting for a worker.
C2_CapReached ==
    /\ pc = "enrich"
    /\ Cardinality(InFlight) = concurrency
    /\ Len(lectures) > concurrency
    /\ index < Len(lectures)

\* C3: once enrichLectureDescriptions has resolved, every record whose
\* link had a failed fetch has the empty string as its description (the
\* records start without a description).
C3_FailedLinkEmptyDescription ==
    resolved =>
        \A i \in 1..Len(lectures) :
            lectures[i].detailUrl \in failedLinks => lectures[i].detailDescription = ""

\* C4: once enrichLectureDescriptions has resolved, two records with the
\* same detail link hold the same description, main venue and branch venue.
C4_SameLinkSameEnrichment ==
    resolved =>
        \A i, j \in 1..Len(lectures) :
            (lectures[i].detailUrl = lectures[j].detailUrl /\ ~Falsy(lectures[i].detailUrl)) =>
                /\ lectures[i].detailDescription = lectures[j].detailDescription
                /\ lectures[i].mainVenue = lectures[j].mainVenue
                /\ lectures[i].branchVenue = lectures[j].branchVenue

\* C5: the step in which a fetch for a link fails records the link in the
\* cache with the empty (undefined) result, the link stays in the cache, and
\* from that step on no fetch for the link is started.
C5_NoFetchAfterFailure ==
    [][\A l \in Links :
          /\ l \in failedLinks' \ failedLinks => cacheVal'[l] = NoDetails
          /\ l \in failedLinks' => (l \in cacheKeys' /\ FetchCountNext(l) = FetchCount(l))]_vars

\* A link failed, was fetched once, and a second record with the link was
\* served from the cache.
C5_FailedLinkReused ==
    /\ resolved
    /\ \E l \in failedLinks : FetchCount(l) = 1 /\ Cardinality(RecordsWith(l)) >= 2

\* C6: in no state has enrichLectureDescriptions resolved while one of its
\* detail fetches is still in flight.
C6_ResolvedAfterAllFetches == resolved => InFlight = {}

\* The call has resolved after dispatching fetches for two workers.
C6_ResolvedWithFetches == resolved /\ Len(detailFetches) >= 2 /\ Len(wk) >= 2

\* A record without its enrichment fields, and the enrichment a record
\* receives when the fetch for its link succeeds.
Bare(r) ==
    [r EXCEPT !.detailDescription = Undefined, !.mainVenue = Undefined,
              !.branchVenue = Undefined]

ExpectedEnrichment(r) ==
    IF Falsy(r.detailUrl) THEN Bare(r)
    ELSE applyLectureDetails(Bare(r), detailPage[r.detailUrl])

\* C7: a failed detail fetch does not fail the collection pass (the answer
\* is a lectures response carrying the records), and every record whose link
\* had no failed fetch holds the enrichment of a successful fetch.
C7_DetailFailureStaysLocal ==
    /\ (pc = "done" /\ failedLinks # {}) =>
            (response.type = "lectures" /\ response.lectures = lectures)
    /\ (pc = "done" /\ response.type = "lectures") =>
            \A i \in 1..Len(response.lectures) :
                response.lectures[i].detailUrl \notin failedLinks =>
                    response.lectures[i] = ExpectedEnrichment(response.lectures[i])

\* A fetch failed for one link while a record with another link was enriched.
C7_OtherLinkEnriched ==
    /\ pc = "done"
    /\ failedLinks # {}
    /\ \E i \in 1..Len(lectures) :
          /\ lectures[i].detailUrl \in Links \ failedLinks
          /\ lectures[i].detailDescription = "intro"

\* C8: when the response for page p has a non-success status, the pass has
\* aborted: p is the last page requested, no detail fetch is issued, no
\* records are returned, and the answer is an error whose reason is the
\* message built from p and the status (no other page or status gives it).
C8_PageFailureAborts ==
    (pageStatus # 0 /\ ~(pageStatus >= 200 /\ pageStatus <= 299)) =>
        /\ pc = "done"
        /\ ~resolved
        /\ requests[Len(requests)].page = page
        /\ detailFetches = <<>>
        /\ response.type = "error"
        /\ response.lectures = <<>>
        /\ response.reason = PageErrorText(page, pageStatus)
        /\ \A p \in 1..MaxPages, st \in {404, 500} :
              (p # page \/ st # pageStatus) => response.reason # PageErrorText(p, st)

\* A page failed while rows were already collected and a later page was
\* still to be requested.
C8_FailedBeforeLastPage ==
    /\ pc = "done"
    /\ pageStatus \in {404, 500}
    /\ Len(lectures) > 0
    /\ page < metadata.totalPages
    /\ metadata.currentPage # metadata.totalPages

RequestedPages == [i \in 1..Len(requests) |-> requests[i].page]

\* The pages the walk has to request.
PagesToWalk(md) ==
    IF md.totalPages > 1 THEN { p \in 1..md.totalPages : p # md.currentPage } ELSE {}

\* C9: at most one page request is in flight; a page is requested only
\* after every earlier requested page has been parsed; pages are requested
\* in ascending index; a detail fetch is issued only after every page of
\* the walk has been requested and parsed.
C9_PagesSequential ==
    /\ Cardinality(pagesInFlight) <= 1
    /\ Len(requests) <= Len(pagesParsed) + 1
    /\ \A i, j \in 1..Len(requests) : i < j => requests[i].page < requests[j].page
    /\ detailFetches # <<>> =>
          /\ pagesInFlight = {}
          /\ pagesParsed = RequestedPages
          /\ PagesToWalk(metadata) \subseteq { pagesParsed[i] : i \in 1..Len(pagesParsed) }

\* Two pages were requested and parsed before the first detail fetch.
C9_FetchAfterTwoPages == Len(pagesParsed) >= 2 /\ detailFetches # <<>>

\* The walk is over without a failed page: the enricher has been entered.
WalkComplete == pc = "enrich" \/ resolved

\* Number of parameters of a request that are named as the page field, and
\* the request carries the page index (as decimal text) under that name.
PageFieldPairs(req) ==
    { j \in 1..Len(req.params) : req.params[j].k = PageFieldOf(metadata.form) }

CarriesPage(req) ==
    /\ Cardinality(PageFieldPairs(req)) = 1
    /\ \A j \in PageFieldPairs(req) : req.params[j].v = Digits[req.page + 1]

\* C10 as stated: with no failed page fetch the pages requested are exactly
\* {1..totalPages} minus the loaded page, each once, carrying its index in
\* the page field; without a pattern match no page is requested.
C10_AllButLoadedPage ==
    /\ WalkComplete =>
          /\ { requests[i].page : i \in 1..Len(requests) } =
                (1..metadata.totalPages) \ {metadata.currentPage}
          /\ Len(requests) = Cardinality((1..metadata.totalPages) \ {metadata.currentPage})
    /\ \A i \in 1..Len(requests) : CarriesPage(requests[i])
    /\ (pc # "idle" /\ ~infoMatch.matched) => (metadata.totalPages = 1 /\ requests = <<>>)

\* C10 amended: the pages requested are {1..totalPages} minus the loaded
\* page when totalPages > 1 and none when totalPages is 1 (also when the
\* text says the loaded page is not page 1), each once, carrying its index
\* in the page field; without a pattern match the pass counts as one page.
C10_AllButLoadedPageIfSeveral ==
    /\ WalkComplete =>
          /\ { requests[i].page : i \in 1..Len(requests) } = PagesToWalk(metadata)
          /\ Len(requests) = Cardinality(PagesToWalk(metadata))
    /\ \A i \in 1..Len(requests) : CarriesPage(requests[i])
    /\ (pc # "idle" /\ ~infoMatch.matched) => (metadata.totalPages = 1 /\ requests = <<>>)

\* A walk over several pages, started from one of them, is complete.
C10_WalkedFromInside ==
    /\ WalkComplete
    /\ Len(requests) >= 1
    /\ metadata.currentPage \in 1..metadata.totalPages

\* The accepted rows of a table, in document order, as (title, link) pairs.
AcceptedRows(doc) ==
    LET rows == SelectSeq(doc, RowAccepted) IN
    [i \in 1..Len(rows) |-> <<rows[i].title, rows[i].href>>]

\* The accepted rows of the pages p..totalPages other than the loaded one,
\* page after page.
RECURSIVE OtherPagesRows(_, _)
OtherPagesRows(md, p) ==
    IF p > md.totalPages THEN <<>>
    ELSE (IF p = md.currentPage THEN <<>> ELSE AcceptedRows(serverPages[p]))
         \o OtherPagesRows(md, p + 1)

OtherParams(req, pageField) ==
    { req.params[j] : j \in { i \in 1..Len(req.params) : req.params[i].k # pageField } }

\* C12: the metadata in use, and the metadata answered, is the metadata
\* captured from the live page; no page request changes it, and every
\* request carries the captured fields with only the page field overridden.
C12_MetadataCapturedOnce ==
    LET captured == collectMetadata(infoMatch, formInput)
        pageField == PageFieldOf(captured.form)
    IN /\ pc # "idle" => metadata = captured
       /\ response.type = "lectures" => response.metadata = captured
       /\ \A i \in 1..Len(requests) :
             /\ OtherParams(requests[i], pageField) =
                   { captured.form.fields[j] :
                        j \in { k \in 1..Len(captured.form.fields) :
                                    captured.form.fields[k].k # pageField } }
             /\ Len(requests[i].params) = Cardinality(Keys(captured.form.fields) \cup {pageField})
             /\ requests[i].method = captured.form.method

\* A lectures response after a request that set the page field to another
\* value than the one captured in the field map.
C12_PageFieldOverridden ==
    /\ response.type = "lectures"
    /\ \E i \in 1..Len(requests), j \in 1..Len(metadata.form.fields) :
          /\ metadata.form.fields[j].k = PageFieldOf(metadata.form)
          /\ Field(PageFieldOf(metadata.form), metadata.form.fields[j].v)
                \notin { requests[i].params[n] : n \in 1..Len(requests[i].params) }

\* C13: when every fetch settles, a collect request is answered: the pass
\* ends, it ends with a lectures response or an error response that has a
\* reason text, there is no answer before the end, and the answer given is
\* never replaced.
C13_ExactlyOneResponse ==
    /\ <>(pc = "done")
    /\ [](pc = "done" <=> response.type \in {"lectures", "error"})
    /\ [](response.type = "error" => response.reason # "")
    /\ [](response.type = "lectures" => response.lectures # <<>>)
    /\ [][response.type # "none" => response' = response]_vars

\* Each way a pass can end in an error, and a pass that ends with lectures
\* although a detail fetch failed.
C13_AnsweredAfterFailure ==
    /\ pc = "done"
    /\ \/ response.reason = NetworkErrorText
       \/ response.reason = NoTableText /\ Len(requests) >= 1
       \/ response.type = "lectures" /\ failedLinks # {}

\* C18: generateIcsFile given zero records fails with the empty-input error
\* and downloads no file.
C18_EmptyInputFails ==
    (icsResult.kind # "none" /\ Len(icsInput) = 0) =>
        /\ icsResult.kind = "throw"
        /\ icsResult.reason = EmptyInputText
        /\ icsResult.downloads = 0
        /\ downloads = 0

C18_CalledWithNoRecords ==
    caller = "export" /\ icsResult.kind = "throw" /\ icsInput = <<>>

\* C19: for a non-empty record list whose serialization succeeds, exactly
\* one file is downloaded and the count reported is the number of events,
\* which is the number of records; when serialization fails nothing is
\* downloaded; the zero-usable-events failure is raised exactly when the
\* conversion of a non-empty list yields no event.
C19_CountIsRecordCount ==
    /\ (icsResult.kind = "resolve") =>
          /\ downloads = 1
          /\ icsResult.count = Len(icsResult.events)
          /\ Len(icsResult.events) = Len(icsInput)
    /\ (icsResult.kind = "reject") => downloads = 0 /\ Len(icsInput) > 0
    /\ (icsResult.kind = "throw" /\ icsResult.reason = UnparsableText) <=>
          /\ icsResult.kind # "none"
          /\ Len(icsInput) > 0
          /\ Len(EventsOf(icsInput)) = 0

C19_SeveralRecordsExported ==
    caller = "export" /\ icsResult.kind = "resolve" /\ Len(icsInput) >= 2

\* C20: the event of record i has the record's title, else its topic, else
\* the generic label; its location is the venue text when a venue is
\* present, else the department when non-empty, else absent; its url is
\* present exactly when the record has a detail link; its categories are
\* [topic] exactly when the topic is non-empty; start and end are the
\* record's tuples.
C20_EventOfRecord ==
    \A i \in 1..Len(icsResult.events) :
        LET row == icsInput[i]
            event == icsResult.events[i]
            venue == row.mainVenue \notin {Undefined, ""} \/ row.branchVenue \notin {Undefined, ""}
        IN /\ event.title = (IF row.title # "" THEN row.title
                             ELSE IF row.topic # "" THEN row.topic ELSE GenericTitle)
           /\ venue => event.location =
                 (IF row.mainVenue \in {Undefined, ""} THEN "branch: " \o row.branchVenue
                  ELSE IF row.branchVenue \in {Undefined, ""} THEN "main: " \o row.mainVenue
                  ELSE "main: " \o row.mainVenue \o ", " \o "branch: " \o row.branchVenue)
           /\ (~venue /\ row.department # "") => event.location = row.department
           /\ (~venue /\ row.department = "") => event.location = Undefined
           /\ (event.url # Undefined) <=> (row.detailUrl \notin {Undefined, ""})
           /\ event.url # Undefined => event.url = row.detailUrl
           /\ IF row.topic # "" THEN event.categories = <<row.topic>>
              ELSE event.categories = Undefined
           /\ event.start = row.start
           /\ event.end = row.end

\* A record without a title but with a topic and a department and no venue,
\* exported together with a record that has a venue and a link.
C20_FallbacksTaken ==
    /\ caller = "export"
    /\ icsResult.kind = "resolve"
    /\ Len(icsInput) >= 2
    /\ icsInput[1].title = "" /\ icsInput[1].topic # ""
    /\ icsInput[1].mainVenue = Undefined /\ icsInput[1].branchVenue = Undefined
    /\ icsInput[1].department # ""
    /\ icsInput[2].mainVenue # Undefined /\ icsInput[2].detailUrl # Undefined

\* Number of detail fetches the popup issued for link l so far.
PopupFetchCount(l) == Cardinality({ i \in 1..Len(popupFetches) : popupFetches[i] = l })

\* The continuation of loadLectures runs in this step.
LoadEnds == popPc = "loading" /\ popPc' = "ready"

\* C14: a load whose message got no response ends with the fixed
\* communication-failure message, a load answered by an error response ends
\* with that response's reason, the two are told apart, and in both cases
\* the popup's record set is left empty, not replaced by new data.
C14_MissingResponseIsCommunicationFailure ==
    [][LoadEnds =>
        /\ sent = "lost" =>
              /\ status' = Status(CommunicationText, "error")
              /\ allLectures' = <<>> /\ filteredLectures' = <<>> /\ selectedLectureIds' = {}
        /\ (sent = "delivered" /\ response.type = "error") =>
              /\ status' = Status(response.reason, "error")
              /\ response.reason # CommunicationText
              /\ allLectures' = <<>> /\ filteredLectures' = <<>> /\ selectedLectureIds' = {}
        /\ allLectures' # <<>> => (sent = "delivered" /\ response.type = "lectures")
      ]_vars

\* A reload that got no response, after a load that had shown records.
C14_LostAfterLoaded ==
    /\ status = Status(CommunicationText, "error")
    /\ popPc = "ready"
    /\ popupFetches # <<>>
    /\ allLectures = <<>>

\* C15: whenever the buttons are disabled they are enabled again later; the
\* step that ends a load or an export enables them, and when the load or
\* the export has failed it leaves an error-kind status.
C15_ButtonsReenabled ==
    /\ buttonsDisabled ~> ~buttonsDisabled
    /\ [][/\ LoadEnds => ~buttonsDisabled'
          /\ (LoadEnds /\ (sent = "lost" \/ response.type # "lectures"
                              \/ response.lectures = <<>>))
                => status'.kind = "error"
          /\ (popPc = "exporting" /\ popPc' = "ready") =>
                /\ ~buttonsDisabled'
                /\ icsResult.kind # "resolve" => status'.kind = "error"
          /\ (popPc = "ready" /\ popPc' = "ready" /\ status'.message = NothingSelectedText)
                => status'.kind = "error" /\ ~buttonsDisabled'
       ]_vars

\* An export has failed in the exporter after a successful load, and the
\* buttons are enabled again.
C15_EnabledAfterExportFailure ==
    /\ popPc = "ready"
    /\ ~buttonsDisabled
    /\ status = Status(SerializeErrorText, "error")
    /\ allLectures # <<>>

\* C16: once a detail request has failed, no later step of the pass and no
\* rendering of the popup fetches the same link again; once a page request
\* has failed, the pass issues no further page request.
C16_NoRetries ==
    [][/\ \A l \in failedLinks :
             /\ FetchCount(l)' <= FetchCount(l)
             /\ PopupFetchCount(l)' = PopupFetchCount(l)
       /\ (pc = "done" /\ response.type = "error" /\ pc' = "done") => requests' = requests
      ]_vars

\* C17: the second of two passes over an unchanged source ends as the first
\* one did: the same record sequence, ids left out, whatever the order in
\* which the fetches settle and whatever the cap.
C17_SecondPassSame ==
    (runs = 1 /\ pc = "done") => PassResult = firstRun.result

\* The second pass of a direct call with a cap of 2 is over: three records,
\* the first and the last with the same link, fetched once in this pass.
C17_TwiceWithSharedLink ==
    /\ runs = 1 /\ pc = "done"
    /\ caller = "direct" /\ concurrency = 2
    /\ Len(lectures) = 3
    /\ lectures[1].detailUrl = "u1" /\ lectures[2].detailUrl = "u2"
    /\ lectures[3].detailUrl = "u1"
    /\ lectures[3].detailDescription = "intro"
    /\ detailFetches = <<"u1", "u2">>

\* C25: within one collection pass the ids of the records of the merged
\* sequence are pairwise distinct, also when the sequence spans several
\* pages.
C25_MergedIdsDistinct ==
    WalkComplete =>
        \A i, j \in 1..Len(lectures) : lectures[i].id = lectures[j].id => i = j

\* The documents one pass reads: the loaded page and the server's pages.
DocsRead == {liveDoc} \cup { serverPages[p] : p \in DOMAIN serverPages }

\* The positions of the rows of a document that have at least 8 cells and a
\* time cell of the strict pattern.
KeptRows(doc) == { i \in 1..Len(doc) : doc[i].cells >= 8 /\ doc[i].timeOk }

\* C26: the row parser returns one record per accepted row, in document
\* order, and drops every row with fewer than 8 cells or with a time cell
\* that does not match; a document without accepted rows yields the empty
\* sequence. The records the pass starts from are those of the loaded page.
\* (The documents do not change during a pass: the parser is applied to
\* them in the states before the pass reads the first one.)
C26_OneRecordPerAcceptedRow ==
    /\ pc = "idle" => \A doc \in DocsRead :
        LET recs == parseLectureRows(doc) IN
        /\ Len(recs) = Cardinality(KeptRows(doc))
        /\ \A k \in 1..Len(recs) :
            /\ recs[k].id + 1 \in KeptRows(doc)
            /\ recs[k].title = doc[recs[k].id + 1].title
            /\ recs[k].detailUrl = doc[recs[k].id + 1].href
        /\ \A k \in 1..(Len(recs) - 1) : recs[k].id < recs[k + 1].id
        /\ (KeptRows(doc) = {} => recs = <<>>)
    /\ WalkComplete =>
        /\ Len(lectures) >= Cardinality(KeptRows(liveDoc))
        /\ \A k \in 1..Cardinality(KeptRows(liveDoc)) :
            lectures[k].id + 1 \in KeptRows(liveDoc)

\* A pass over a loaded page with a row of a bad time cell between two
\* accepted rows, and a server page with a short header row, has finished
\* its walk.
C26_RowsDropped ==
    /\ WalkComplete
    /\ \E i \in 1..Len(liveDoc) :
        /\ liveDoc[i].cells >= 8 /\ ~liveDoc[i].timeOk
        /\ i - 1 \in KeptRows(liveDoc) /\ i + 1 \in KeptRows(liveDoc)
    /\ \E doc \in DocsRead : \E i \in 1..Len(doc) : doc[i].cells < 8
    /\ \E doc \in DocsRead : Len(doc) = 0
    /\ Len(lectures) >= 2

\* The records of the filtered set.
FilteredRecords == [i \in 1..Len(filteredLectures) |-> allLectures[filteredLectures[i] + 1]]

\* Whether the text of a record's field is accepted by the filter of the
\* field: every text by an empty accepted set, the members by any other.
Accepted(lecture, key, f) ==
    f[key] = {} \/ (IF key = "credits" THEN ToStr(lecture.credits) ELSE lecture[key]) \in f[key]

\* C21: for each of topic, title, speaker, department, audience and credits,
\* an empty accepted set matches every record and a non-empty one matches
\* exactly the records whose field value is a member; a record is in the
\* filtered set only if it matches the filter of every field.
C21_MultiValueFilters ==
    /\ \A i \in 1..Len(allLectures) : \A key \in TextKeys :
        /\ multiSelectMatches(FieldText(allLectures[i], key), filters[key])
               <=> Accepted(allLectures[i], key, filters)
        /\ multiSelectMatches(FieldText(allLectures[i], key), {})
        /\ \A v \in optionMap(allLectures)[key] :
               multiSelectMatches(FieldText(allLectures[i], key), {v})
                   <=> FieldText(allLectures[i], key) = v
    /\ \A i \in 1..Len(filteredLectures) : \A key \in TextKeys :
        Accepted(FilteredRecords[i], key, filters)

\* Two filters accept values, the others accept everything, and only some
\* of the records are left.
C21_TwoFiltersActive ==
    /\ popPc = "ready"
    /\ filters.topic = {"science"}
    /\ filters.speaker = {"Prof. Li"}
    /\ filters.credits = {}
    /\ Len(allLectures) = 3
    /\ Len(filteredLectures) = 1

\* The ids of the records of the filtered set.
FilteredIds == { filteredLectures[i] : i \in 1..Len(filteredLectures) }

\* A step of a filter change: the accepted sets change while the popup
\* stays where it is.
FilterChangeStep == filters' # filters /\ popPc' = popPc

\* A step that ends a load with records: applyFilters in reset mode.
LoadedStep == popPc = "loading" /\ popPc' = "ready" /\ Len(allLectures') > 0

\* C22: a filter change leaves selected exactly the ids that were selected
\* and are in the new filtered set, so an id that was filtered out stays
\* unselected when a later change brings its record back; the end of a load
\* selects exactly the ids of all filtered records.
C22_SelectionAfterFiltering ==
    [][ /\ FilterChangeStep =>
            /\ selectedLectureIds' = selectedLectureIds \cap FilteredIds'
            /\ \A id \in FilteredIds' \ selectedLectureIds : id \notin selectedLectureIds'
        /\ LoadedStep => selectedLectureIds' = FilteredIds' ]_vars

\* Every record is back in the filtered set after filter changes, and one
\* that had been filtered out is no longer selected.
C22_BackButUnselected ==
    /\ popPc = "ready"
    /\ filters = NoFilters
    /\ status = Status(RemainingText(3), "info")
    /\ Len(filteredLectures) = 3
    /\ selectedLectureIds # {}
    /\ selectedLectureIds # FilteredIds

\* The filtered set is a subsequence of the records all, in the same order:
\* ids of records of all, each after the one before it.
IsSubsequence(filtered, all) ==
    /\ \A k \in 1..Len(filtered) :
        /\ filtered[k] + 1 \in 1..Len(all)
        /\ all[filtered[k] + 1].id = filtered[k]
    /\ \A k \in 1..(Len(filtered) - 1) : filtered[k] < filtered[k + 1]

\* C23: applyFilters changes neither the full record set nor any field of a
\* record: when it returns, on a filter change as at the end of a load, the
\* records are the records it was called with (the callbacks that rendering
\* queues on settled detail promises run after it, and keep the number and
\* the ids of the records), and the filtered set is a subsequence of the
\* full set in the same order.
C23_FilteringKeepsRecords ==
    [][ /\ FilterChangeStep =>
            LET applied == applyFilters(allLectures, filters', selectedLectureIds, FALSE)
                ps == renderLectures(allLectures, applied.filtered, lectureDetailsCache,
                                     popupFetches, thens)
            IN /\ ps.all = allLectures
               /\ filteredLectures' = applied.filtered
               /\ IsSubsequence(applied.filtered, allLectures)
        /\ LoadedStep =>
            LET normalized == normalizeLectures(response.lectures)
                applied == applyFilters(normalized, filters', selectedLectureIds, TRUE)
                ps == renderLectures(normalized, applied.filtered, lectureDetailsCache,
                                     popupFetches, {})
            IN /\ ps.all = normalized
               /\ filteredLectures' = applied.filtered
               /\ IsSubsequence(applied.filtered, normalized)
        /\ (FilterChangeStep \/ LoadedStep) =>
            /\ Len(allLectures') = Len(allLectures) \/ LoadedStep
            /\ \A i \in 1..Len(allLectures') : allLectures'[i].id = i - 1
            /\ IsSubsequence(filteredLectures', allLectures') ]_vars

\* A filter change has left the first and the third of three records, the
\* first of them with a detail link.
C23_MiddleRecordFilteredOut ==
    /\ popPc = "ready"
    /\ Len(allLectures) = 3
    /\ filteredLectures = <<0, 2>>
    /\ status = Status(RemainingText(2), "info")
    /\ allLectures[1].detailUrl # Undefined

\* C24: after a successful load the record at position i of the popup's
\* record set has id i (positions counted from 0), so the ids are pairwise
\* distinct whatever ids the rows of the pages carried, and the start and
\* end timestamps of every record are numbers.
C24_ReindexedByPosition ==
    /\ \A i \in 1..Len(allLectures) :
        /\ allLectures[i].id = i - 1
        /\ allLectures[i].startTimestamp # NoTimestamp
        /\ allLectures[i].endTimestamp # NoTimestamp
        /\ allLectures[i].startTimestamp = TimeOf(allLectures[i].start)
    /\ \A i, j \in 1..Len(allLectures) :
        allLectures[i].id = allLectures[j].id => i = j
    /\ (popPc = "ready" /\ status = Status(FoundText(Len(response.lectures)), "success"))
        => /\ Len(allLectures) = Len(response.lectures)
           /\ \A i \in 1..Len(allLectures) :
                allLectures[i].title = response.lectures[i].title

\* A load has ended with three records, two of which the collector
\* answered with the same id.
C24_LoadedWithSharedIds ==
    /\ popPc = "ready"
    /\ Len(allLectures) = 3
    /\ status = Status(FoundText(3), "success")
    /\ \E i, j \in 1..Len(response.lectures) :
        i # j /\ response.lectures[i].id = response.lectures[j].id

\* The filtered records whose id is in the selection, in filtered order.
IsSelected(lecture) == lecture.id \in selectedLectureIds
SelectedRecords == SelectSeq(FilteredRecords, IsSelected)

\* C28: an export hands the exporter exactly the filtered records whose id
\* is selected, in filtered order; when there is none the exporter is not
\* called, an error status is shown, and the record set, the filtered
\* set, the selection and the buttons stay as they are.
C28_ExportsSelectedFiltered ==
    [][ /\ (popPc = "ready" /\ popPc' = "exporting") =>
            /\ SelectedRecords # <<>>
            /\ icsInput' = SelectedRecords
        /\ (status' = Status(NothingSelectedText, "error") /\ status' # status) =>
            /\ SelectedRecords = <<>>
            /\ UNCHANGED <<allLectures, filteredLectures, selectedLectureIds,
                           buttonsDisabled, popPc, icsInput, icsResult, downloads>>
        /\ (popPc = "ready" /\ (icsInput' # icsInput \/ icsResult' # icsResult
                                  \/ downloads' # downloads)) =>
            SelectedRecords # <<>> ]_vars

\* The exporter works on the first and the third of three filtered
\* records, the second not being selected.
C28_ExportingTwoOfThree ==
    /\ popPc = "exporting"
    /\ Len(filteredLectures) = 3
    /\ selectedLectureIds = {0, 2}
    /\ Len(icsInput) = 2
    /\ icsInput[1].id = 0
    /\ icsInput[2].id = 2

\* C29: between handlers the selection is a subset of the ids of the
\* filtered set, whatever loads (answered or not), filter changes, checkbox
\* changes, select-all and clear-selection clicks came before.
C29_SelectionWithinFiltered ==
    /\ selectedLectureIds \subseteq FilteredIds
    /\ FilteredIds \subseteq { allLectures[i].id : i \in 1..Len(allLectures) }

\* After a second load, a title filter leaves two of three records and one
\* of the two has been unselected.
C29_PartlySelectedAfterReload ==
    /\ popPc = "ready"
    /\ loads = 2
    /\ filters.title = {"B", "D"}
    /\ filteredLectures = <<0, 2>>
    /\ selectedLectureIds = {2}

\* The ids of the records of the full set that satisfy the filter predicate
\* under the accepted sets f, in the order of the full set.
MatchingIds(f) ==
    LET matching == SelectSeq(allLectures, LAMBDA lecture : matchesFilters(lecture, f))
    IN [k \in 1..Len(matching) |-> matching[k].id]

\* C30: between handlers the filtered set is exactly the subsequence of the
\* full record set that satisfies the filter predicate under the current
\* filters, also after a detail fetch started by rendering has completed
\* and written description and venues into a record while a venue-campus
\* filter is active.
C30_FilteredIsCurrent == filteredLectures = MatchingIds(filters)

\* C27: while the rows of a detail page are scanned in order, once a row has
\* set the main venue (or the branch venue), by the row-text pattern or by a
\* cell label, no later row changes it: the final value is the first one
\* assigned.
C27_FirstVenueWins ==
    [][ /\ Truthy(detailsSoFar.mainVenue) => detailsSoFar'.mainVenue = detailsSoFar.mainVenue
        /\ Truthy(detailsSoFar.branchVenue) =>
                detailsSoFar'.branchVenue = detailsSoFar.branchVenue ]_vars

\* C31: the popup fetches a detail link at most once in its lifetime: over
\* every render, filter change and reload, a link that is in the popup's
\* cache (pending, succeeded or failed) is not fetched again, and every
\* fetch is for a rendered record whose description is undefined.
C31_OneFetchPerLink ==
    [][\A l \in Links :
         /\ PopupFetchCount(l)' <= 1
         /\ lectureDetailsCache[l] # "absent" => PopupFetchCount(l)' = PopupFetchCount(l)
         /\ PopupFetchCount(l)' > PopupFetchCount(l) =>
               \E i \in 1..Len(filteredLectures') :
                  LET lecture == allLectures'[filteredLectures'[i] + 1]
                  IN lecture.detailUrl = l /\ lecture.detailDescription = Undefined
      ]_vars

\* The popup has loaded twice; the one fetch of u1 it made has failed, and
\* the record of the second load that links to u1 got its empty description
\* from the cached promise, without a second fetch.
C31_RenderedAgainFromCache ==
    /\ popPc = "ready"
    /\ loads = 2
    /\ popupFetches = <<"u1">>
    /\ lectureDetailsCache["u1"] = "failed"
    /\ \E i \in 1..Len(filteredLectures) :
          LET lecture == allLectures[filteredLectures[i] + 1]
          IN lecture.detailUrl = "u1" /\ lecture.detailDescription = ""

\* The pass has read no accepted row: none in the loaded page, none in any
\* page it replayed.
NoAcceptedRows ==
    /\ KeptRows(liveDoc) = {}
    /\ \A k \in 1..Len(pagesParsed) : KeptRows(serverPages[pagesParsed[k]]) = {}

\* C32: a lectures response never carries an empty record list: a pass
\* whose loaded page and replayed pages together have no accepted row ends
\* with the error response of the missing table, and the popup that gets an
\* error response is left with an empty record set, an empty filtered set
\* and an empty selection.
C32_NoEmptyLecturesResponse ==
    [][ /\ response'.type = "lectures" => Len(response'.lectures) > 0
        /\ (pc # "done" /\ pc' = "done" /\ resolved' /\ NoAcceptedRows')
              => response' = ErrorResponse(NoTableText)
        /\ (popPc = "loading" /\ popPc' = "ready" /\ sent = "delivered"
              /\ response.type = "error")
              => /\ allLectures' = <<>>
                 /\ filteredLectures' = <<>>
                 /\ selectedLectureIds' = {}
                 /\ status' = Status(response.reason, "error")
      ]_vars

\* The popup showed the two lectures of the page it was opened on; the tab
\* moved to a page of a header row and a row with a bad time cell, the
\* reload replayed a page without accepted rows and was answered with the
\* error of the missing table, and the popup holds no record.
C32_ClearedAfterEmptyReload ==
    /\ popPc = "ready"
    /\ loads = 2
    /\ liveDoc = <<HeaderRow, BadTimeRow>>
    /\ Len(pagesParsed) >= 1
    /\ NoAcceptedRows
    /\ response = ErrorResponse(NoTableText)
    /\ status = Status(NoTableText, "error")
    /\ allLectures = <<>> /\ filteredLectures = <<>> /\ selectedLectureIds = {}

====
